---- MODULE Spec2Model ----
(***************************************************************************)
(* A model of the nofx assistant core: the Agent tool-calling loop          *)
(* (assistant/agent.go, smart agent), the Session store                     *)
(* (assistant/session.go), and the Monitor with its alert deduplication     *)
(* (monitor + context builder).                                             *)
(*                                                                          *)
(* Texts are sequences of tokens.  A model response is a token sequence in  *)
(* which "{" and "}" are braces, "sp" is white space, "tc" is the           *)
(* "tool_calls" key followed by its array, "tcw" is the word tool_calls in  *)
(* prose, a tool name is one element of the array, and anything else is     *)
(* prose.                                                                   *)
(***************************************************************************)
EXTENDS Integers, Sequences, FiniteSets, TLC

(* ----------------------------- bounds --------------------------------- *)
\* AgentConfig.MaxToolCalls of the modelled agent
MaxToolCalls == 3
\* AgentConfig.MaxHistoryMessages of the modelled agent (capacity M)
MaxHistoryMessages == 2
\* Chat turns started in one behaviour
MaxTurns == 2
\* messages appended to one session between two Clear calls
MaxAdds == 3
\* RegisterTool calls in one behaviour
MaxRegistrations == 4

(* ----------------------------- inputs --------------------------------- *)
Tasks == {"c1", "c2"}
SessionIds == {"s1"}
ToolNames == {"A", "B"}
Handlers == {"h1", "h2"}
UserTexts == {<<"u1">>, <<"u2">>}
NoSession == [absent |-> TRUE]
NoTool == "none"
NoRet == [pending |-> TRUE]

\* what the completion collaborator may answer
PlainResponse == <<"x", "sp">>
OneCallResponse == <<"{", "tc", "A", "}">>
TwoCallResponse == <<"y", "sp", "{", "tc", "A", "A", "}", "sp">>
UnknownCallResponse == <<"{", "tc", "Z", "}">>
UnknownFirstResponse == <<"{", "tc", "Z", "A", "}">>
TwoToolResponse == <<"{", "tc", "B", "A", "}">>
ToolResponses == {PlainResponse, UnknownFirstResponse, TwoToolResponse}
BadBlockResponse == <<"tcw", "sp", "{", "x", "}">>
EmptyBlockResponse == <<"sp", "x", "sp", "{", "tc", "}">>
Responses ==
    {PlainResponse, OneCallResponse, TwoCallResponse, UnknownCallResponse,
     BadBlockResponse, EmptyBlockResponse}

\* what a tool handler may return: (result, nil) or (nil, err); error is
\* "nil" for a nil error and the text of err.Error() otherwise
OkOutcome == [result |-> "r", error |-> "nil"]
ErrOutcome == [result |-> "nil", error |-> "e"]
HandlerOutcomes == {OkOutcome, ErrOutcome}
\* (nil, nil), (nil, errors.New("")) and a result together with an error
NilOutcome == [result |-> "nil", error |-> "nil"]
EmptyErrOutcome == [result |-> "nil", error |-> ""]
BothOutcome == [result |-> "r", error |-> "e"]
ToolOutcomes == HandlerOutcomes \cup {NilOutcome, EmptyErrOutcome, BothOutcome}

(* ----------------------------- state ---------------------------------- *)
VARIABLES
    tools,        \* Agent.tools: name -> handler, NoTool when unregistered
    toolReaders,  \* tasks holding Agent.toolsLock for reading
    sessions,     \* Agent.sessions: id -> Session, NoSession when absent
    smu,          \* Session.mu: "free", or the task holding it for writing
    chat,         \* each task's position in Chat / AddMessage, its locals, and
                  \* ghost logs of its turn: aiCalls (completion calls made),
                  \* respLog (responses received), dispatchLog (calls handed to
                  \* executeToolCalls), execLog (handlers invoked)
    observed,     \* the last sequence GetMessages returned to each task
    addLog,       \* ghost: messages appended to a session since it was empty
    turns,        \* ghost: Chat turns started
    regLog,       \* ghost: every RegisterTool call, as <<name, handler>>
    held          \* the slice each task holds from its last GetMessages

\* the strategy tools' state
VARIABLES
    strategies,   \* StrategyTools.strategies, in the order the entries were stored
    gridRet       \* the arguments and the outcome of the last create_grid_strategy call

stratVars == <<strategies, gridRet>>

agentVars ==
    <<tools, toolReaders, sessions, smu, chat, observed, addLog, turns, regLog, held,
      stratVars>>

VARIABLES
    running,        \* Monitor.running
    stopChan,       \* Monitor.stopChan: the identity of the current channel
    closeCount,     \* how many times each channel was closed
    pendingGo,      \* Start calls past their locked section, before `go`
    loops,          \* the monitorLoop goroutines, by the channel of their Start
    alertCallbacks, \* Monitor.alertCallbacks
    lastPositions,  \* Monitor.lastPositions: key -> PositionSummary
    lastAlerts,     \* Monitor.lastAlerts: key -> time last sent
    now,            \* the clock, in minutes
    world,          \* what each trader's GetPositions returns
    sendLog,        \* ghost: every sendAlert, with its time and callbacks
    emitLog,        \* ghost: every sendAlertIfNew, with its time and outcome
    ticks,          \* ghost: checkAndAlert runs begun
    startCalls,     \* ghost: Start calls
    stopCalls,      \* ghost: Stop calls
    cbTasks,        \* the goroutines sendAlert launched that returned or block
    interval,       \* Monitor.interval, in seconds
    config,         \* AgentConfig of the agent: MaxToolCalls
    mlocks,         \* Monitor.mu and Monitor.callbackMu: who holds them
    mtasks          \* the goroutines that use the monitor: where each one
                    \* stands in which method

\* the Telegram bot
VARIABLES
    botConfig,      \* Bot.config: AllowedUserIDs, MaxMessagesPerMinute
    allowedUsers,   \* Bot.allowedUsers: the ids mapped to true
    users,          \* RateLimiter.users: id -> the timestamps kept
    clock,          \* time.Now() of the bot, in seconds
    msgLog          \* ghost: every incoming message and how far it got

botVars == <<botConfig, allowedUsers, users, clock, msgLog>>
syncVars == <<mlocks, mtasks>>
sideVars == <<cbTasks, interval, config, syncVars, botVars>>
lifeVars == <<running, stopChan, closeCount, pendingGo, startCalls, stopCalls>>
alertVars == <<alertCallbacks, lastPositions, lastAlerts, sendLog, emitLog>>
monVars == <<lifeVars, loops, alertVars, now, world, ticks, sideVars>>

vars == <<agentVars, monVars>>

(* --------------------------- text helpers ----------------------------- *)
RECURSIVE Index(_, _, _)
\* strings.Index: the first position of tok at or after i, 0 when there is none
Index(s, tok, i) ==
    IF i > Len(s) THEN 0
    ELSE IF s[i] = tok THEN i ELSE Index(s, tok, i + 1)

RECURSIVE LastIndex(_, _, _)
\* strings.LastIndex: the last position of tok at or before i, 0 when there is none
LastIndex(s, tok, i) ==
    IF i < 1 THEN 0
    ELSE IF s[i] = tok THEN i ELSE LastIndex(s, tok, i - 1)

\* strings.Contains(response, "tool_calls")
ContainsToolCalls(s) == \E i \in 1..Len(s) : s[i] \in {"tc", "tcw"}

RECURSIVE TrimLeft(_)
TrimLeft(s) == IF s # <<>> /\ Head(s) = "sp" THEN TrimLeft(Tail(s)) ELSE s

RECURSIVE TrimRight(_)
TrimRight(s) ==
    IF s # <<>> /\ s[Len(s)] = "sp" THEN TrimRight(SubSeq(s, 1, Len(s) - 1)) ELSE s

\* strings.TrimSpace
TrimSpace(s) == TrimRight(TrimLeft(s))

\* white space inside a JSON document is insignificant
NoSpace(s) == SelectSeq(s, LAMBDA c : c # "sp")

CallTokens == ToolNames \cup {"Z"}

\* json.Unmarshal of a brace-delimited block into struct{ToolCalls []...}:
\* an empty object or an object whose tool_calls array lists calls decodes;
\* anything else in the block is a decode error
Unmarshal(block) ==
    LET b == NoSpace(block)
        inner == SubSeq(b, 2, Len(b) - 1)
    IN  IF Len(b) >= 2 /\ b[1] = "{" /\ b[Len(b)] = "}" /\ inner = <<>>
        THEN [ok |-> TRUE, calls |-> <<>>]
        ELSE IF Len(b) >= 3 /\ b[1] = "{" /\ b[Len(b)] = "}" /\ inner[1] = "tc"
                /\ \A i \in 2..Len(inner) : inner[i] \in CallTokens
        THEN [ok |-> TRUE, calls |-> [i \in 1..(Len(inner) - 1) |-> [name |-> inner[i + 1]]]]
        ELSE [ok |-> FALSE, calls |-> <<>>]

\* a fallback that tidies the response it could not parse
parseResponse_Trimmed(response) ==
    LET start == Index(response, "{", 1)
        end == LastIndex(response, "}", Len(response))
        parsed == Unmarshal(SubSeq(response, start, end))
    IN  IF ContainsToolCalls(response) /\ start >= 1 /\ end > start /\ parsed.ok
        THEN [toolCalls |-> parsed.calls,
              textResponse |-> TrimSpace(SubSeq(response, 1, start - 1)
                                         \o SubSeq(response, end + 1, Len(response))),
              err |-> FALSE]
        ELSE [toolCalls |-> <<>>, textResponse |-> TrimSpace(response), err |-> FALSE]

\* Agent.parseResponse
parseResponse(response) ==
    LET start == Index(response, "{", 1)
        end == LastIndex(response, "}", Len(response))
        parsed == Unmarshal(SubSeq(response, start, end))
    IN  IF ContainsToolCalls(response) /\ start >= 1 /\ end > start /\ parsed.ok
        THEN [toolCalls |-> parsed.calls,
              textResponse |-> TrimSpace(SubSeq(response, 1, start - 1)
                                         \o SubSeq(response, end + 1, Len(response))),
              err |-> FALSE]
        ELSE [toolCalls |-> <<>>, textResponse |-> response, err |-> FALSE]

(* ----------------------------- session -------------------------------- *)
Message(role, content) == [role |-> role, content |-> content]

\* NewSession
NewSession(id, maxMessages) == [id |-> id, messages |-> <<>>, maxMessages |-> maxMessages]

\* a trim that keeps the oldest messages instead of the most recent
TrimMessages_KeepOldest(msgs, maxMessages) ==
    IF Len(msgs) > maxMessages THEN SubSeq(msgs, 1, maxMessages) ELSE msgs

\* Session.AddMessage, the trim: keep the most recent maxMessages
TrimMessages(msgs, maxMessages) ==
    IF Len(msgs) > maxMessages
    THEN SubSeq(msgs, Len(msgs) - maxMessages + 1, Len(msgs))
    ELSE msgs

\* a reader that does not take the lock
CanRLock_Unlocked(sid) == TRUE

\* whether a reader may take Session.mu (no writer holds it)
CanRLock(sid) == smu[sid] = "free"

\* whether a writer may take Session.mu
CanLock(sid) == smu[sid] = "free"

IdleChat ==
    [pc |-> "idle", sid |-> "s1", msg |-> Message("user", <<>>), cont |-> "idle",
     prompt |-> <<>>, finalResponse |-> <<>>, toolCallCount |-> 0,
     calls |-> <<>>, results |-> <<>>, text |-> <<>>, cancelled |-> FALSE,
     ret |-> NoRet, aiCalls |-> 0, execLog |-> <<>>, dispatchLog |-> <<>>,
     respLog |-> <<>>]

\* a return that takes the record of the turn's tool executions with it
Returned_Forget(c, ret) == [IdleChat EXCEPT !.ret = ret]

\* Chat has returned `ret`: its locals are gone, the ghost logs of the turn stay
Returned(c, ret) ==
    [IdleChat EXCEPT !.ret = ret, !.aiCalls = c.aiCalls, !.execLog = c.execLog,
                     !.dispatchLog = c.dispatchLog,
                     !.respLog = c.respLog, !.cancelled = c.cancelled]

\* a result that shares the session's backing array
Copy_Alias(messages) == [alias |-> TRUE, elems |-> messages]
\* GetMessages: `result := make([]Message, len(s.messages)); copy(result, s.messages)`
Copy(messages) == [alias |-> FALSE, elems |-> messages]

\* the sequence a caller reads through the slice GetMessages returned to it
HeldBy(t) == IF held[t].alias THEN sessions["s1"].messages ELSE held[t].elems

\* what a caller writes into a slice it holds
Scribble == Message("user", <<"w">>)

InitAgentWith(M) ==
    /\ config \in [MaxToolCalls : M]
    /\ tools = [n \in ToolNames |-> NoTool]
    /\ toolReaders = {}
    /\ sessions = [s \in SessionIds |-> NoSession]
    /\ smu = [s \in SessionIds |-> "free"]
    /\ chat = [t \in Tasks |-> IdleChat]
    /\ observed = [t \in Tasks |-> <<>>]
    /\ addLog = [s \in SessionIds |-> <<>>]
    /\ turns = 0
    /\ regLog = <<>>
    /\ held = [t \in Tasks |-> [alias |-> FALSE, elems |-> <<>>]]
    /\ strategies = <<>>
    /\ gridRet = NoRet

\* the agent as constructed with the modelled configuration
InitAgent == InitAgentWith({MaxToolCalls})

\* a lookup that makes a new session on every call
GetSessionOf_AlwaysNew(sid) ==
    [sessions EXCEPT ![sid] = NewSession(sid, MaxHistoryMessages)]

\* Agent.GetSession: get or create, under sessionsLock
GetSessionOf(sid) ==
    IF sessions[sid] # NoSession THEN sessions
    ELSE [sessions EXCEPT ![sid] = NewSession(sid, MaxHistoryMessages)]

\* Agent.GetSession called on its own
GetSession(sid) ==
    /\ sessions' = GetSessionOf(sid)
    /\ UNCHANGED <<monVars, stratVars, regLog, held, tools, toolReaders, smu, chat, observed, addLog, turns>>

Register_FirstWins(registry, name, h) ==
    IF registry[name] = NoTool THEN [registry EXCEPT ![name] = h] ELSE registry
\* a.tools[tool.Name()] = tool
Register(registry, name, h) == [registry EXCEPT ![name] = h]

\* Agent.RegisterTool: tools[name] = tool, under the write lock of toolsLock
RegisterTool(name, h) ==
    /\ toolReaders = {}
    /\ Len(regLog) < MaxRegistrations
    /\ tools' = Register(tools, name, h)
    /\ regLog' = Append(regLog, <<name, h>>)
    /\ UNCHANGED <<monVars, stratVars, held, toolReaders, sessions, smu, chat, observed, addLog, turns>>

\* a lock that stays with the caller after AddMessage
Unlock_Held(mu, sid) == mu
\* AddMessage: `defer s.mu.Unlock()`
Unlock(mu, sid) == [mu EXCEPT ![sid] = "free"]

\* Session.AddMessage called on its own: the caller waits for Session.mu
ApiAddMessage(t, sid, content) ==
    /\ chat[t].pc = "idle"
    /\ sessions[sid] # NoSession
    /\ Len(addLog[sid]) < MaxAdds
    /\ chat' = [chat EXCEPT ![t].pc = "am_lock", ![t].sid = sid,
                            ![t].msg = Message("user", content), ![t].cont = "idle"]
    /\ UNCHANGED <<monVars, stratVars, regLog, held, tools, toolReaders, sessions, smu, observed, addLog, turns>>

\* Session.AddMessage: Lock, append
AddMessageAppend(t) ==
    LET sid == chat[t].sid IN
    /\ chat[t].pc = "am_lock"
    /\ CanLock(sid)
    /\ smu' = [smu EXCEPT ![sid] = t]
    /\ sessions' = [sessions EXCEPT ![sid].messages = Append(@, chat[t].msg)]
    /\ addLog' = [addLog EXCEPT ![sid] = Append(@, chat[t].msg)]
    /\ chat' = [chat EXCEPT ![t].pc = "am_trim"]
    /\ UNCHANGED <<monVars, stratVars, regLog, held, tools, toolReaders, observed, turns>>

\* Session.AddMessage: trim to maxMessages, Unlock; Chat returns after the
\* assistant message is appended
AddMessageTrim(t) ==
    LET sid == chat[t].sid IN
    /\ chat[t].pc = "am_trim"
    /\ smu[sid] = t
    /\ sessions' = [sessions EXCEPT
                      ![sid].messages = TrimMessages(@, sessions[sid].maxMessages)]
    /\ smu' = Unlock(smu, sid)
    /\ chat' = [chat EXCEPT ![t] =
                  IF chat[t].cont = "return"
                  THEN Returned(@, [text |-> chat[t].finalResponse, err |-> "nil"])
                  ELSE [@ EXCEPT !.pc = chat[t].cont]]
    /\ UNCHANGED <<monVars, stratVars, regLog, held, tools, toolReaders, observed, addLog, turns>>

\* the caller overwrites element i of the slice GetMessages returned to it
WriteHeld(t, i) ==
    /\ chat[t].pc = "idle"
    /\ i \in 1..Len(HeldBy(t))
    /\ HeldBy(t)[i] # Scribble
    /\ IF held[t].alias
       THEN /\ sessions' = [sessions EXCEPT !["s1"].messages[i] = Scribble]
            /\ held' = held
       ELSE /\ held' = [held EXCEPT ![t].elems[i] = Scribble]
            /\ sessions' = sessions
    /\ UNCHANGED <<monVars, stratVars, regLog, tools, toolReaders, smu, chat, observed, addLog, turns>>

\* Session.GetMessages called on its own: a copy, under the read lock
GetMessages(t, sid) ==
    /\ chat[t].pc = "idle"
    /\ sessions[sid] # NoSession
    /\ CanRLock(sid)
    /\ observed' = [observed EXCEPT ![t] = sessions[sid].messages]
    /\ held' = [held EXCEPT ![t] = Copy(sessions[sid].messages)]
    /\ UNCHANGED <<monVars, stratVars, regLog, tools, toolReaders, sessions, smu, chat, addLog, turns>>

\* Session.Clear, under the write lock
Clear(t, sid) ==
    /\ chat[t].pc = "idle"
    /\ sessions[sid] # NoSession
    /\ CanLock(sid)
    /\ sessions' = [sessions EXCEPT ![sid].messages = <<>>]
    /\ addLog' = [addLog EXCEPT ![sid] = <<>>]
    /\ UNCHANGED <<monVars, stratVars, regLog, held, tools, toolReaders, smu, chat, observed, turns>>

(* ------------------------------ Chat ---------------------------------- *)
\* a bound check that stops one call early
MaxReached_OneEarly(toolCallCount) == toolCallCount + 1 >= config.MaxToolCalls

\* the loop's bound check: toolCallCount >= a.config.MaxToolCalls
MaxReached(toolCallCount) == toolCallCount >= config.MaxToolCalls

\* the ToolResult executeToolCalls appends for one call
ToolResultOf(name, registered, outcome) ==
    IF ~registered
    THEN [name |-> name, result |-> "nil", error |-> "unknown tool"]
    ELSE IF outcome.error # "nil"
    THEN [name |-> name, result |-> "nil", error |-> outcome.error]
    ELSE [name |-> name, result |-> outcome.result, error |-> ""]

\* a return that stores an assistant message without the answer
FinishWith_Unsaved(c, final) ==
    [c EXCEPT !.finalResponse = final, !.pc = "am_lock",
              !.msg = Message("assistant", <<>>), !.cont = "return"]

\* the final AddMessage of Chat: the assistant message, then return
FinishWith(c, final) ==
    [c EXCEPT !.finalResponse = final, !.pc = "am_lock",
              !.msg = Message("assistant", final), !.cont = "return"]

\* Chat: GetSession, then AddMessage of the user message begins
ChatStart(t, sid, text) ==
    /\ chat[t].pc = "idle"
    /\ turns < MaxTurns
    /\ Len(addLog[sid]) < MaxAdds
    /\ turns' = turns + 1
    /\ sessions' = GetSessionOf(sid)
    /\ chat' = [chat EXCEPT ![t] =
                  [IdleChat EXCEPT !.pc = "am_lock", !.sid = sid,
                                   !.msg = Message("user", text), !.cont = "build"]]
    /\ UNCHANGED <<monVars, stratVars, regLog, held, tools, toolReaders, smu, observed, addLog>>

\* Chat: buildSystemPromptWithTools and buildConversationPrompt (GetMessages)
ChatBuild(t) ==
    /\ chat[t].pc = "build"
    /\ CanRLock(chat[t].sid)
    /\ chat' = [chat EXCEPT
                  ![t].pc = "loop",
                  ![t].prompt = <<[tools |-> {n \in ToolNames : tools[n] # NoTool},
                                   history |-> sessions[chat[t].sid].messages]>>]
    /\ UNCHANGED <<monVars, stratVars, regLog, held, tools, toolReaders, sessions, smu, observed, addLog, turns>>

ContextDone_Never(c) == FALSE
\* Chat: `ctx.Err() != nil`
ContextDone(c) == c.cancelled

\* Chat: the head of one loop iteration
ChatIter(t) ==
    /\ chat[t].pc = "loop"
    /\ chat' = [chat EXCEPT ![t] =
                  IF ContextDone(chat[t])
                  THEN Returned(@, [text |-> <<>>, err |-> "ctx"])
                  ELSE IF MaxReached(chat[t].toolCallCount)
                  THEN FinishWith(@, chat[t].finalResponse)
                  ELSE [@ EXCEPT !.pc = "calling"]]
    /\ UNCHANGED <<monVars, stratVars, regLog, held, tools, toolReaders, sessions, smu, observed, addLog, turns>>

CompletionFailed_Partial(c) == Returned(c, [text |-> c.finalResponse, err |-> "ai"])
\* Chat: `return nil, fmt.Errorf("AI call failed: %w", err)`
CompletionFailed(c) == Returned(c, [text |-> <<>>, err |-> "ai"])

\* Chat: the completion call fails
ChatCompletionFails(t) ==
    /\ chat[t].pc = "calling"
    /\ chat' = [chat EXCEPT ![t] = CompletionFailed([@ EXCEPT !.aiCalls = @ + 1])]
    /\ UNCHANGED <<monVars, stratVars, regLog, held, tools, toolReaders, sessions, smu, observed, addLog, turns>>

\* Chat: the completion call answers `response`; parseResponse; either the
\* final answer, or executeToolCalls begins (toolsLock.RLock)
ChatCompletion(t, response) ==
    LET p == parseResponse(response)
        c == [chat[t] EXCEPT !.aiCalls = @ + 1, !.respLog = Append(@, response)]
    IN
    /\ chat[t].pc = "calling"
    /\ chat' = [chat EXCEPT ![t] =
                  IF p.err THEN FinishWith(c, response)
                  ELSE IF Len(p.toolCalls) = 0 THEN FinishWith(c, p.textResponse)
                  ELSE [c EXCEPT !.pc = "exec", !.calls = p.toolCalls,
                                 !.results = <<>>, !.text = p.textResponse]]
    /\ toolReaders' = IF ~p.err /\ Len(p.toolCalls) > 0
                      THEN toolReaders \cup {t} ELSE toolReaders
    /\ UNCHANGED <<monVars, stratVars, regLog, held, tools, sessions, smu, observed, addLog, turns>>

Capture_Always(final, text) == text
\* Chat: `if textResponse != "" { finalResponse = textResponse }`
Capture(final, text) == IF text # <<>> THEN text ELSE final

Registered_Always(name) == TRUE
\* executeToolCalls: `tool, ok := a.tools[call.Name]`
Registered(name) == name \in ToolNames /\ tools[name] # NoTool

\* a batch that leaves the count where it was
Counted_Not(toolCallCount, calls) == toolCallCount
\* Chat: `toolCallCount += len(toolCalls)`
Counted(toolCallCount, calls) == toolCallCount + Len(calls)

NextCall_LastFirst(calls, results) == calls[Len(calls) - Len(results)]
\* executeToolCalls: `for _, call := range calls` visits the calls in order
NextCall(calls, results) == calls[Len(results) + 1]

\* executeToolCalls: the next call of the batch; after the last one the
\* read lock is released and Chat folds the batch into the prompt
ChatExecute(t, outcome) ==
    LET c == chat[t]
        call == NextCall(c.calls, c.results)
        registered == Registered(call.name)
        results == Append(c.results, ToolResultOf(call.name, registered, outcome))
        last == Len(results) = Len(c.calls)
        c1 == [c EXCEPT !.results = results,
                        !.dispatchLog = Append(@, call.name),
                        !.execLog = IF registered THEN Append(@, call.name) ELSE @]
    IN
    /\ c.pc = "exec"
    /\ chat' = [chat EXCEPT ![t] =
                  IF ~last THEN c1
                  ELSE [c1 EXCEPT
                          !.pc = "loop",
                          !.toolCallCount = Counted(@, c.calls),
                          !.prompt = Append(@, [calls |-> c.calls, results |-> results]),
                          !.finalResponse = Capture(@, c.text)]]
    /\ toolReaders' = IF last THEN toolReaders \ {t} ELSE toolReaders
    /\ UNCHANGED <<monVars, stratVars, regLog, held, tools, sessions, smu, observed, addLog, turns>>

\* the caller's context is cancelled while the turn runs
Cancel(t) ==
    /\ chat[t].pc \in {"loop", "calling", "exec"}
    /\ ~chat[t].cancelled
    /\ chat' = [chat EXCEPT ![t].cancelled = TRUE]
    /\ UNCHANGED <<monVars, stratVars, regLog, held, tools, toolReaders, sessions, smu, observed, addLog, turns>>

(* ----------------------------- monitor -------------------------------- *)
\* the suppression window of sendAlertIfNew, in minutes
DedupWindow == 5
\* Start and Stop calls in one behaviour
MaxStartCalls == 3
MaxStopCalls == 2
\* checkAndAlert runs in one behaviour
MaxTicks == 3
\* the clock stops here
MaxTime == 9
\* callbacks registered in one behaviour
MaxCallbacks == 2

ChanIds == 0..MaxStartCalls
LoopIds == 1..MaxStartCalls
Traders == {"t1", "t2"}
Callbacks == {"cb1"}

\* values of a map[string]interface{} with their dynamic type
AnyFloat(v) == [type |-> "float64", val |-> v]
AnyInt(v) == [type |-> "int", val |-> v]
AnyString(v) == [type |-> "string", val |-> v]
\* a key the map does not hold
NilNum == [type |-> "nil", val |-> 0]

\* the type assertions v.(float64), v.(int), v.(string) with the ok flag
\* tested: the field keeps its zero value when the dynamic type differs
AsFloat64(x) == IF x.type = "float64" THEN x.val ELSE 0
AsInt(x) == IF x.type = "int" THEN x.val ELSE 0
AsString(x) == IF x.type = "string" THEN x.val ELSE ""

\* the result of a fetch from a trader: a value or an error
Fetched(v) == [err |-> FALSE, val |-> v]
NoAccount == [total_equity |-> NilNum, available_balance |-> NilNum]
AccountFailed == [err |-> TRUE, val |-> NoAccount]
PositionsFailed == [err |-> TRUE, val |-> <<>>]

\* what a trader answers to GetAccountInfo and GetPositions
TraderState(account, positions) == [account |-> account, positions |-> positions]
Account10 == Fetched([total_equity |-> AnyFloat(10), available_balance |-> AnyFloat(5)])

\* positions as a trader's GetPositions reports them
posA ==
    [symbol |-> AnyString("BTC"), side |-> AnyString("LONG"), size |-> AnyFloat(1), entry_price |-> AnyFloat(100),
     mark_price |-> AnyFloat(100), unrealized_pnl |-> AnyFloat(0), leverage |-> AnyInt(5),
     liquidation_price |-> AnyFloat(97)]
posB ==
    [symbol |-> AnyString("ETH"), side |-> AnyString("short"), size |-> AnyFloat(2), entry_price |-> AnyFloat(100),
     mark_price |-> AnyFloat(130), unrealized_pnl |-> AnyFloat(-60), leverage |-> AnyInt(1),
     liquidation_price |-> AnyFloat(0)]
\* raw positions that cover the thresholds of checkPositionAlerts
PositionInputs ==
    [symbol : {AnyString("BTC")},
     side : {AnyString("long"), AnyString("LONG"), AnyString("short"), AnyString("sell")},
     size : {AnyFloat(1), AnyFloat(0), AnyInt(1)},
     entry_price : {AnyFloat(100), AnyFloat(0)},
     mark_price : {AnyFloat(m) : m \in {0, 40, 50, 75, 80, 85, 90, 95, 100, 105, 110,
                                        115, 120, 125, 150, 160}},
     unrealized_pnl : {AnyFloat(0)},
     leverage : {AnyInt(1), AnyInt(5), AnyFloat(5)},
     liquidation_price : {AnyFloat(q) : q \in {-5, 0, 85, 90, 93, 95, 96, 104, 105, 107,
                                               110, 115}}]

\* what GetAccountInfo and GetPositions of one trader may answer
AccountInputs ==
    {AccountFailed, Fetched(NoAccount)} \cup
    {Fetched([total_equity |-> e, available_balance |-> AnyFloat(5)]) :
        e \in {AnyFloat(10), AnyFloat(20), AnyInt(7)}}
FetchInputs == {PositionsFailed, Fetched(<<>>), Fetched(<<posA>>)}

\* the states of the traders a snapshot is built from
ContextWorlds ==
    {[t \in Traders |-> IF t = "t1" THEN TraderState(Account10, Fetched(<<pos>>))
                        ELSE TraderState(Account10, Fetched(<<>>))] :
        pos \in PositionInputs}
    \cup [Traders -> {TraderState(a, f) : a \in AccountInputs, f \in FetchInputs}]

Worlds ==
    {w \in [Traders -> {TraderState(Account10, Fetched(ps)) :
                           ps \in {<<>>, <<posA>>, <<posB>>}}] :
        w["t1"].positions.val # <<posB>> /\ w["t2"].positions.val # <<posA>>}
\* the clock readings at which something may happen
Instants == {0, DedupWindow - 1, DedupWindow, MaxTime}
NoPositions == [t \in Traders |-> TraderState(Account10, Fetched(<<>>))]

\* the orders in which a Go map over S may be iterated
Orders(S) ==
    {o \in [1..Cardinality(S) -> S] : \A a, b \in 1..Cardinality(S) : a # b => o[a] # o[b]}

\* strings.ToLower on a side
ToLower(side) ==
    CASE side = "LONG" -> "long" [] side = "SHORT" -> "short" [] OTHER -> side

PnLPercentOf_LongOnly(side, entry, mark, leverage) ==
    [num |-> (mark - entry) * 100 * leverage, den |-> entry]
\* parsePosition's P&L percent for entry > 0, the exact quotient num/den
PnLPercentOf(side, entry, mark, leverage) ==
    IF side = "long"
    THEN [num |-> (mark - entry) * 100 * leverage, den |-> entry]
    ELSE [num |-> (entry - mark) * 100 * leverage, den |-> entry]

\* ContextBuilder.parsePosition
parsePosition(pos, traderID) ==
    LET side == ToLower(AsString(pos.side))
        size == AsFloat64(pos.size)
        entry == AsFloat64(pos.entry_price)
        mark == AsFloat64(pos.mark_price)
        leverage == AsInt(pos.leverage)
    IN  [TraderID |-> traderID, Symbol |-> AsString(pos.symbol), Side |-> side,
         Size |-> size, EntryPrice |-> entry, MarkPrice |-> mark,
         UnrealizedPnL |-> AsFloat64(pos.unrealized_pnl),
         Leverage |-> leverage,
         LiquidationPrice |-> AsFloat64(pos.liquidation_price),
         PnLPercent |->
            IF entry > 0 /\ size > 0 THEN PnLPercentOf(side, entry, mark, leverage)
            ELSE [num |-> 0, den |-> 1]]

\* fmt %.1f of the quotient num/den (den > 0): the tenths, rounded to nearest
Fmt1(q) ==
    LET n == 10 * q.num IN
    ToString(IF n >= 0 THEN (2 * n + q.den) \div (2 * q.den)
             ELSE -((2 * (-n) + q.den) \div (2 * q.den)))

Below_OrEqual(q, k) == q.num <= k * q.den
\* num/den < k, for den > 0
Below(q, k) == q.num < k * q.den

Above_OrEqual(q, k) == q.num >= k * q.den
\* num/den > k, for den > 0
Above(q, k) == q.num > k * q.den

Alert(level, type, message) == [Level |-> level, Type |-> type, Message |-> message]

\* ContextBuilder.checkPositionAlerts: the alerts one position appends
checkPositionAlerts(pos) ==
    LET dist == IF pos.Side = "long"
                THEN [num |-> (pos.MarkPrice - pos.LiquidationPrice) * 100,
                      den |-> pos.MarkPrice]
                ELSE [num |-> (pos.LiquidationPrice - pos.MarkPrice) * 100,
                      den |-> pos.MarkPrice]
        pnl == pos.PnLPercent
        liq == IF ~(pos.LiquidationPrice > 0 /\ pos.MarkPrice > 0) THEN <<>>
               ELSE IF Below(dist, 5)
               THEN <<Alert("danger", "liquidation_risk",
                            <<"liq!", pos.Symbol, pos.Side, Fmt1(dist)>>)>>
               ELSE IF Below(dist, 10)
               THEN <<Alert("warning", "liquidation_risk",
                            <<"liq", pos.Symbol, pos.Side, Fmt1(dist)>>)>>
               ELSE <<>>
        loss == IF Below(pnl, -20)
                THEN <<Alert("danger", "large_loss",
                             <<"loss!", pos.Symbol, pos.Side, Fmt1(pnl)>>)>>
                ELSE IF Below(pnl, -10)
                THEN <<Alert("warning", "large_loss",
                             <<"loss", pos.Symbol, pos.Side, Fmt1(pnl)>>)>>
                ELSE <<>>
        profit == IF Above(pnl, 50)
                  THEN <<Alert("info", "large_profit",
                               <<"profit", pos.Symbol, pos.Side, Fmt1(pnl)>>)>>
                  ELSE <<>>
    IN  liq \o loss \o profit

RECURSIVE TraderPositions(_, _)
\* the summaries of one trader's positions, in the order reported
TraderPositions(raw, traderID) ==
    IF raw = <<>> THEN <<>>
    ELSE <<parsePosition(Head(raw), traderID)>> \o TraderPositions(Tail(raw), traderID)

RECURSIVE AlertsOf(_)
AlertsOf(positions) ==
    IF positions = <<>> THEN <<>>
    ELSE checkPositionAlerts(Head(positions)) \o AlertsOf(Tail(positions))

RECURSIVE ContextPositions(_)
\* ctx.Positions: the positions of the traders whose GetPositions succeeded
ContextPositions(order) ==
    IF order = <<>> THEN <<>>
    ELSE (IF world[Head(order)].positions.err THEN <<>>
          ELSE TraderPositions(world[Head(order)].positions.val, Head(order)))
         \o ContextPositions(Tail(order))

\* the equity BuildContext reads from one trader's account info
TraderEquity(trader) ==
    IF trader.account.err THEN 0 ELSE AsFloat64(trader.account.val.total_equity)

\* the TraderSummary BuildContext appends for one trader
TraderSummary(id) ==
    [ID |-> id, Equity |-> TraderEquity(world[id]),
     PositionCount |-> IF world[id].positions.err THEN 0
                       ELSE Len(world[id].positions.val)]

AddEquity_Overwrite(total, equity) == equity
\* ctx.TotalEquity += equity
AddEquity(total, equity) == total + equity

RECURSIVE TotalEquity(_)
\* ctx.TotalEquity after the traders in `order` were visited
TotalEquity(order) ==
    IF order = <<>> THEN 0
    ELSE LET n == Len(order)
             equity == TraderEquity(world[order[n]])
             total == TotalEquity(SubSeq(order, 1, n - 1))
         IN  IF world[order[n]].account.err
                \/ world[order[n]].account.val.total_equity.type # "float64"
             THEN total
             ELSE AddEquity(total, equity)

RECURSIVE AvailableBalance(_)
\* ctx.AvailableBalance after the traders in `order` were visited
AvailableBalance(order) ==
    IF order = <<>> THEN 0
    ELSE LET account == world[Head(order)].account
         IN  (IF account.err THEN 0 ELSE AsFloat64(account.val.available_balance))
             + AvailableBalance(Tail(order))

NoContext ==
    [Positions |-> <<>>, Alerts |-> <<>>, ActiveTraders |-> <<>>, TotalEquity |-> 0,
     AvailableBalance |-> 0]

\* a snapshot that is given up when a fetch fails
BuildContext_AbortOnError(order) ==
    IF \E n \in 1..Len(order) :
          world[order[n]].account.err \/ world[order[n]].positions.err
    THEN NoContext
    ELSE [Positions |-> ContextPositions(order),
          Alerts |-> AlertsOf(ContextPositions(order)),
          ActiveTraders |-> [n \in 1..Len(order) |-> TraderSummary(order[n])],
          TotalEquity |-> TotalEquity(order),
          AvailableBalance |-> AvailableBalance(order)]

\* ContextBuilder.BuildContext, the traders visited in `order`
BuildContext(order) ==
    [Positions |-> ContextPositions(order),
     Alerts |-> AlertsOf(ContextPositions(order)),
     ActiveTraders |-> [n \in 1..Len(order) |-> TraderSummary(order[n])],
     TotalEquity |-> TotalEquity(order),
     AvailableBalance |-> AvailableBalance(order)]
\* NewMonitor: `interval: 30 * time.Second`
DefaultInterval == 30
NoLoop == [pc |-> "none", ch |-> 0, ctx |-> NoContext, i |-> 1, period |-> 0]

\* fmt.Sprintf("%s_%s_%s", pos.TraderID, pos.Symbol, pos.Side)
PositionKey(pos) == <<pos.TraderID, "_", pos.Symbol, "_", pos.Side>>

\* fmt.Sprintf("%s_%s", alert.Type, alert.Message)
AlertKey(alert) == <<alert.Type, "_">> \o alert.Message

NewPositionAlert(pos) ==
    Alert("info", "new_position",
          <<"new", pos.Symbol, pos.Side, ToString(pos.Size), ToString(pos.EntryPrice),
            ToString(pos.Leverage)>>)

PositionClosedAlert(pos) ==
    Alert("info", "position_closed", <<"closed", pos.Symbol, pos.Side, ToString(pos.EntryPrice)>>)

\* a delivery that reaches the first registered callback only
Sent_FirstOnly(alert) ==
    [alert |-> alert, at |-> now,
     cbs |-> IF alertCallbacks = <<>> THEN <<>> ELSE <<alertCallbacks[1]>>]

\* Monitor.sendAlert: the alert goes to a copy of the registered callbacks
Sent(alert) == [alert |-> alert, at |-> now, cbs |-> alertCallbacks]

SentRecently_Inclusive(lastSent) == now - lastSent <= DedupWindow
\* whether sendAlertIfNew skips a key last sent at lastSent
SentRecently(lastSent) == now - lastSent < DedupWindow

\* NewMonitor, the traders in one of the states W
\* the goroutines of the lock protocol: the monitor loop, a caller of the
\* monitor's methods, and the goroutines sendAlert launches for callbacks
MonTasks == {"loop", "api", "g1", "g2"}
CallbackTasks == {"g1", "g2"}
IdleTask == [pc |-> "idle", op |-> "none"]

\* the ids of the Telegram users that write to the bot
UserIDs == {1, 2}
\* DefaultBotConfig: `MaxMessagesPerMinute: 30`, no allow-list
DefaultMessagesPerMinute == 30
DefaultBotConfig == [AllowedUserIDs |-> <<>>, MaxMessagesPerMinute |-> DefaultMessagesPerMinute]

InitMonitorWith(W, B) ==
    /\ botConfig \in B
    /\ allowedUsers = {botConfig.AllowedUserIDs[i] : i \in DOMAIN botConfig.AllowedUserIDs}
    /\ users = [u \in UserIDs |-> <<>>]
    /\ clock = 0
    /\ msgLog = <<>>
    /\ running = FALSE
    /\ stopChan = 0
    /\ closeCount = [k \in ChanIds |-> 0]
    /\ pendingGo = {}
    /\ loops = [l \in LoopIds |-> NoLoop]
    /\ alertCallbacks = <<>>
    /\ lastPositions = <<>>
    /\ lastAlerts = <<>>
    /\ now = 0
    /\ world \in W
    /\ sendLog = <<>>
    /\ emitLog = <<>>
    /\ ticks = 0
    /\ startCalls = 0
    /\ stopCalls = 0
    /\ cbTasks = [returned |-> {}, blocked |-> {}]
    /\ interval = DefaultInterval
    /\ mlocks = [mu |-> "free", callbackMu |-> [w |-> "free", r |-> {}]]
    /\ mtasks = [t \in MonTasks |-> IdleTask]

\* the monitor as constructed, beside a bot with the default configuration
InitMonitorIn(W) == InitMonitorWith(W, {DefaultBotConfig})

InitMonitor == InitMonitorIn({NoPositions})

Init == InitAgent /\ InitMonitor

\* Monitor.OnAlert
OnAlert(cb) ==
    /\ Len(alertCallbacks) < MaxCallbacks
    /\ alertCallbacks' = Append(alertCallbacks, cb)
    /\ UNCHANGED <<agentVars, sideVars, lifeVars, loops, lastPositions, lastAlerts, sendLog,
                   emitLog, now, world, ticks>>

AlreadyRunning_Ignored == FALSE
\* Start's test `if m.running`
AlreadyRunning == running

AlreadyStopped_Ignored == FALSE
\* Stop's test `if !m.running`
AlreadyStopped == ~running

\* Monitor.Start, the section under m.mu
StartLocked ==
    /\ startCalls < MaxStartCalls
    /\ startCalls' = startCalls + 1
    /\ IF AlreadyRunning
       THEN UNCHANGED <<running, stopChan, pendingGo>>
       ELSE /\ running' = TRUE
            /\ stopChan' = stopChan + 1
            /\ pendingGo' = pendingGo \cup {stopChan + 1}
    /\ UNCHANGED <<agentVars, sideVars, closeCount, stopCalls, loops, alertVars, now, world, ticks>>

\* a ticker made with the interval the monitor was constructed with
TickerPeriod_Default(d) == DefaultInterval

\* monitorLoop: `ticker := time.NewTicker(m.interval)`
TickerPeriod(d) == d

\* Monitor.Start, after the lock is released: go m.monitorLoop(), whose first
\* statement makes the ticker
StartGo(k) ==
    /\ k \in pendingGo
    /\ pendingGo' = pendingGo \ {k}
    /\ loops' = [loops EXCEPT ![k].pc = "init", ![k].period = TickerPeriod(interval)]
    /\ UNCHANGED <<agentVars, sideVars, running, stopChan, closeCount, startCalls, stopCalls,
                   alertVars, now, world, ticks>>

\* a Stop that leaves the channel open
Closed_Not(count, ch) == count
\* Stop: `close(m.stopChan)`
Closed(count, ch) == [count EXCEPT ![ch] = @ + 1]

\* Monitor.Stop
Stop ==
    /\ stopCalls < MaxStopCalls
    /\ stopCalls' = stopCalls + 1
    /\ IF AlreadyStopped
       THEN UNCHANGED <<running, closeCount>>
       ELSE /\ running' = FALSE
            /\ closeCount' = Closed(closeCount, stopChan)
    /\ UNCHANGED <<agentVars, sideVars, stopChan, pendingGo, startCalls, loops, alertVars, now,
                   world, ticks>>

\* checkAndAlert begins: BuildContext
BeginCheck(l, order) ==
    LET ctx == BuildContext(order) IN
    /\ ticks' = ticks + 1
    /\ loops' = [loops EXCEPT ![l].ctx = ctx, ![l].i = 1,
                              ![l].pc = IF ctx.Alerts = <<>> THEN "positions" ELSE "alerts"]
    /\ UNCHANGED <<agentVars, sideVars, lifeVars, alertVars, now, world>>

\* monitorLoop: the initial check
LoopInitialCheck(l, order) ==
    /\ loops[l].pc = "init"
    /\ BeginCheck(l, order)

\* monitorLoop: select takes case <-ticker.C
LoopTick(l, order) ==
    /\ loops[l].pc = "select"
    /\ ticks < MaxTicks
    /\ BeginCheck(l, order)

\* checkAndAlert: sendAlertIfNew for the next built-in alert, under m.mu
LoopAlert(l) ==
    LET alert == loops[l].ctx.Alerts[loops[l].i]
        key == AlertKey(alert)
        skip == key \in DOMAIN lastAlerts /\ SentRecently(lastAlerts[key])
    IN
    /\ loops[l].pc = "alerts"
    /\ emitLog' = Append(emitLog, [alert |-> alert, at |-> now, sent |-> ~skip])
    /\ IF skip
       THEN UNCHANGED <<lastAlerts, sendLog>>
       ELSE /\ lastAlerts' = [k \in DOMAIN lastAlerts \cup {key} |->
                                IF k = key THEN now ELSE lastAlerts[k]]
            /\ sendLog' = Append(sendLog, Sent(alert))
    /\ loops' = [loops EXCEPT
                   ![l].i = @ + 1,
                   ![l].pc = IF loops[l].i = Len(loops[l].ctx.Alerts)
                             THEN "positions" ELSE "alerts"]
    /\ UNCHANGED <<agentVars, sideVars, lifeVars, alertCallbacks, lastPositions, now, world, ticks>>

\* the keys of a sequence of positions
KeysOf(positions) == {PositionKey(positions[n]) : n \in 1..Len(positions)}

\* currentPositions of checkPositionChanges: a later position replaces an
\* earlier one with the same key
CurrentPositions(positions) ==
    [k \in KeysOf(positions) |->
        LET n == CHOOSE n \in 1..Len(positions) :
                    /\ PositionKey(positions[n]) = k
                    /\ \A m \in (n + 1)..Len(positions) : PositionKey(positions[m]) # k
        IN  positions[n]]

\* a comparison that reports every current position as new
NewPositionSends_All(positions) ==
    [n \in 1..Len(positions) |-> Sent(NewPositionAlert(positions[n]))]

RECURSIVE NewPositionSends(_)
\* the new_position alerts, one per position whose key was not in lastPositions
NewPositionSends(positions) ==
    IF positions = <<>> THEN <<>>
    ELSE (IF PositionKey(Head(positions)) \in DOMAIN lastPositions THEN <<>>
          ELSE <<Sent(NewPositionAlert(Head(positions)))>>)
         \o NewPositionSends(Tail(positions))

\* a comparison that reports no position as closed
PositionClosedSends_None(order) == <<>>

\* the position_closed alerts, lastPositions visited in `order`
PositionClosedSends(order) ==
    [n \in 1..Len(order) |-> Sent(PositionClosedAlert(lastPositions[order[n]]))]

\* checkAndAlert: checkPositionChanges under m.mu; then the loop waits in
\* select on the ticker and on the channel m.stopChan names now
LoopPositions(l) ==
    LET current == CurrentPositions(loops[l].ctx.Positions) IN
    /\ loops[l].pc = "positions"
    /\ \E order \in Orders(DOMAIN lastPositions \ DOMAIN current) :
          sendLog' = sendLog \o NewPositionSends(loops[l].ctx.Positions)
                             \o PositionClosedSends(order)
    /\ lastPositions' = current
    /\ loops' = [loops EXCEPT ![l].pc = "select", ![l].ch = stopChan,
                              ![l].ctx = NoContext, ![l].i = 1]
    /\ UNCHANGED <<agentVars, sideVars, lifeVars, alertCallbacks, lastAlerts, emitLog, now,
                   world, ticks>>

\* monitorLoop: select takes case <-m.stopChan, the channel is closed
LoopReturn(l) ==
    /\ loops[l].pc = "select"
    /\ closeCount[loops[l].ch] > 0
    /\ loops' = [loops EXCEPT ![l].pc = "done"]
    /\ UNCHANGED <<agentVars, sideVars, lifeVars, alertVars, now, world, ticks>>

\* time passes
Advance(t) ==
    /\ t > now
    /\ now' = t
    /\ UNCHANGED <<agentVars, sideVars, lifeVars, loops, alertVars, world, ticks>>

\* the traders' positions change
SetWorld(w) ==
    /\ w # world
    /\ world' = w
    /\ UNCHANGED <<agentVars, sideVars, lifeVars, loops, alertVars, now, ticks>>

ChatStep(t, U, R, O) ==
    \/ \E sid \in SessionIds, text \in U : ChatStart(t, sid, text)
    \/ ChatBuild(t)
    \/ ChatIter(t)
    \/ ChatCompletionFails(t)
    \/ \E r \in R : ChatCompletion(t, r)
    \/ \E o \in O : ChatExecute(t, o)
    \/ Cancel(t)
    \/ AddMessageAppend(t)
    \/ AddMessageTrim(t)

SessionStep(t) ==
    \/ \E sid \in SessionIds, text \in UserTexts : ApiAddMessage(t, sid, text)
    \/ \E sid \in SessionIds : GetMessages(t, sid)
    \/ \E sid \in SessionIds : Clear(t, sid)
    \/ AddMessageAppend(t)
    \/ AddMessageTrim(t)

\* one caller runs Chat turns against every kind of model response
Next ==
    \/ ChatStep("c1", {<<"u1">>}, Responses, HandlerOutcomes)
    \/ tools["A"] = NoTool /\ RegisterTool("A", "h1")

Spec == Init /\ [][Next]_vars

\* callers use one session directly: AddMessage, GetMessages, Clear
NextSession ==
    \/ \E t \in Tasks : SessionStep(t)
    \/ \E sid \in SessionIds : GetSession(sid)

SpecSession == Init /\ [][NextSession]_vars

\* concurrent Chat turns on one session, interleaved with AddMessage,
\* GetMessages and Clear
NextConc ==
    \/ \E t \in Tasks, sid \in SessionIds : ChatStart(t, sid, <<t>>)
    \/ \E t \in Tasks : ChatBuild(t)
    \/ \E t \in Tasks : ChatIter(t)
    \/ \E t \in Tasks : ChatCompletion(t, PlainResponse)
    \/ \E t \in Tasks : AddMessageAppend(t)
    \/ \E t \in Tasks : AddMessageTrim(t)
    \/ \E sid \in SessionIds : ApiAddMessage("c2", sid, <<"u2">>)
    \/ \E sid \in SessionIds : GetMessages("c2", sid)
    \/ \E sid \in SessionIds : Clear("c2", sid)

SpecConc == Init /\ [][NextConc]_vars

\* one caller runs Chat turns whose batches mix registered and unknown
\* tools, against every handler outcome
NextTools ==
    \/ ChatStep("c1", {<<"u1">>}, ToolResponses, ToolOutcomes)
    \/ \E n \in ToolNames : tools[n] = NoTool /\ RegisterTool(n, "h1")

SpecTools == Init /\ [][NextTools]_vars

\* tools are registered and registered again
NextRegistry == \E n \in ToolNames, h \in Handlers : RegisterTool(n, h)

SpecRegistry == Init /\ [][NextRegistry]_vars


\* the monitor's life cycle: callers start and stop it while its loops tick
NextLife ==
    \/ StartLocked
    \/ \E k \in LoopIds : StartGo(k)
    \/ Stop
    \/ \E l \in LoopIds, o \in Orders(Traders) : LoopInitialCheck(l, o)
    \/ \E l \in LoopIds, o \in Orders(Traders) : LoopTick(l, o)
    \/ \E l \in LoopIds : LoopPositions(l)
    \/ \E l \in LoopIds : LoopReturn(l)

SpecLife == Init /\ [][NextLife]_vars

\* no loop is in the middle of checkAndAlert
Waiting == \A l \in LoopIds : loops[l].pc \in {"none", "init", "select", "done"}

\* a started monitor ticks; between its checks positions change and time passes
NextAlerts ==
    \/ ~running /\ StartLocked
    \/ \E k \in LoopIds : StartGo(k)
    \/ \E cb \in Callbacks : ~running /\ alertCallbacks = <<>> /\ OnAlert(cb)
    \/ \E l \in LoopIds, o \in Orders(Traders) : LoopInitialCheck(l, o)
    \/ \E l \in LoopIds, o \in Orders(Traders) : LoopTick(l, o)
    \/ \E l \in LoopIds : LoopAlert(l)
    \/ \E l \in LoopIds : LoopPositions(l)
    \/ \E t \in Instants : Waiting /\ Advance(t)
    \/ \E w \in Worlds : Waiting /\ SetWorld(w)

SpecAlerts == Init /\ [][NextAlerts]_vars

\* one snapshot is built from any state of the traders and checked
InitContext == InitAgent /\ InitMonitorIn(ContextWorlds)

NextContext ==
    \/ ~running /\ StartLocked
    \/ \E k \in LoopIds : StartGo(k)
    \/ \E l \in LoopIds, o \in Orders(Traders) : LoopInitialCheck(l, o)
    \/ \E l \in LoopIds : LoopAlert(l)
    \/ \E l \in LoopIds : LoopPositions(l)

SpecContext == InitContext /\ [][NextContext]_vars

(* ----------------------------- claims --------------------------------- *)
Min(a, b) == IF a < b THEN a ELSE b

\* the last n elements of a sequence
LastN(s, n) == SubSeq(s, Len(s) - n + 1, Len(s))

\* a response that carries a tool-call block requesting at least one call
IsToolCallBlock(r) == Len(parseResponse(r).toolCalls) > 0

\* a response that is prose only: no braces and no mention of tool_calls
IsPlainText(r) == \A i \in 1..Len(r) : r[i] \notin {"{", "}", "tc", "tcw"}

RECURSIVE RequestedCalls(_)
\* the names of the calls requested by a sequence of responses, in order
RequestedCalls(rs) ==
    IF rs = <<>> THEN <<>>
    ELSE LET cs == parseResponse(Head(rs)).toolCalls
         IN  [i \in 1..Len(cs) |-> cs[i].name] \o RequestedCalls(Tail(rs))

\* the number of tool-call blocks among the responses of a turn
NumBlocks(rs) == Cardinality({i \in 1..Len(rs) : IsToolCallBlock(rs[i])})

ReturnedOk(t) == chat[t].pc = "idle" /\ chat[t].ret # NoRet /\ chat[t].ret.err = "nil"

\* C1: in one Chat turn the number of tool executions (handler invocations)
\* never exceeds MaxToolCalls, whatever the model answers.
C1_ExecutionsBounded == \A t \in Tasks : Len(chat[t].execLog) <= MaxToolCalls

\* C2: GetMessages on a session to which N messages were added since it was
\* empty returns exactly the last min(N, M) of them, in insertion order.
C2_GetMessagesLastM ==
    [][\A t \in Tasks, sid \in SessionIds :
          GetMessages(t, sid) =>
            observed'[t] = LastN(addLog[sid],
                                 Min(Len(addLog[sid]), sessions[sid].maxMessages))]_vars

\* C2 witness: a reader holds the M most recent messages of a session to
\* which more than M messages were added
C2_Witness ==
    \E t \in Tasks :
       /\ Len(addLog["s1"]) > MaxHistoryMessages
       /\ smu["s1"] = "free"
       /\ Len(observed[t]) = MaxHistoryMessages
       /\ observed[t] = LastN(addLog["s1"], MaxHistoryMessages)
       /\ observed[t][1] # observed[t][MaxHistoryMessages]

\* C3: whatever the interleaving of AddMessage, Clear and Chat turns, no
\* reader (GetMessages, or Chat building its prompt) sees more than M
\* messages, and the history is at most M long whenever Session.mu is free.
C3_HistoryBounded ==
    /\ \A t \in Tasks :
          /\ Len(observed[t]) <= MaxHistoryMessages
          /\ chat[t].prompt # <<>> =>
                Len(chat[t].prompt[1].history) <= MaxHistoryMessages
    /\ \A sid \in SessionIds :
          (sessions[sid] # NoSession /\ smu[sid] = "free") =>
             Len(sessions[sid].messages) <= sessions[sid].maxMessages

\* C3 witness: a Chat turn holds Session.mu with M+1 messages in the backing
\* sequence while another Chat turn is in progress and a reader holds M
C3_Witness ==
    /\ chat["c1"].pc = "am_trim"
    /\ chat["c1"].cont = "return"
    /\ Len(sessions["s1"].messages) = MaxHistoryMessages + 1
    /\ Len(observed["c2"]) = MaxHistoryMessages
    /\ chat["c2"].pc = "calling"

\* C4 as stated: a turn that returns an answer after k tool-call blocks,
\* k below MaxToolCalls, has made k+1 completion calls, the last response is
\* plain text, and that text is the answer.
C4_BlocksBelowMax ==
    \A t \in Tasks :
       LET c == chat[t]
           k == NumBlocks(c.respLog)
       IN  (ReturnedOk(t) /\ k >= 1 /\ k < MaxToolCalls
              /\ \A i \in 1..Len(c.respLog) :
                    IsToolCallBlock(c.respLog[i]) \/ IsPlainText(c.respLog[i]))
           => /\ c.aiCalls = k + 1
              /\ Len(c.respLog) = k + 1
              /\ c.ret.text = c.respLog[k + 1]

\* C4 amended: a turn returns an answer after tool-call blocks alone only
\* when the calls they request add up to MaxToolCalls or more; a turn that
\* received k blocks and then a plain text has made k+1 completion calls, has
\* dispatched exactly the calls of the k blocks in order, and answers the
\* plain text unmodified.
C4_BlocksThenText ==
    \A t \in Tasks :
       LET c == chat[t]
           n == Len(c.respLog)
       IN  (ReturnedOk(t) /\ n >= 1
              /\ \A i \in 1..(n - 1) : IsToolCallBlock(c.respLog[i]))
           => /\ IsToolCallBlock(c.respLog[n]) =>
                    Len(RequestedCalls(c.respLog)) >= MaxToolCalls
              /\ IsPlainText(c.respLog[n]) =>
                    /\ c.aiCalls = n
                    /\ c.ret.text = c.respLog[n]
                    /\ c.dispatchLog = RequestedCalls(SubSeq(c.respLog, 1, n - 1))
                    /\ Len(c.dispatchLog) < MaxToolCalls
                    /\ \A i \in 1..Len(c.execLog) : c.execLog[i] = "A"

\* C4 witness: two single-call blocks, then plain text, answered
C4_Witness ==
    /\ ReturnedOk("c1")
    /\ chat["c1"].respLog = <<OneCallResponse, OneCallResponse, PlainResponse>>
    /\ chat["c1"].execLog = <<"A", "A">>
    /\ chat["c1"].ret.text = PlainResponse

\* the alert types ContextBuilder.checkPositionAlerts produces
BuiltinTypes == {"liquidation_risk", "large_loss", "large_profit"}

\* two alerts with the same deduplication identity
SameAlert(a, b) == a.Type = b.Type /\ a.Message = b.Message

\* the deliveries of built-in alerts, as (alert, time) pairs in order
BuiltinDeliveries ==
    LET d == SelectSeq(sendLog, LAMBDA s : s.alert.Type \in BuiltinTypes)
    IN  [n \in 1..Len(d) |-> [alert |-> d[n].alert, at |-> d[n].at]]

\* the emissions that passed the filter, as (alert, time) pairs in order
PassedEmissions ==
    LET e == SelectSeq(emitLog, LAMBDA x : x.sent)
    IN  [n \in 1..Len(e) |-> [alert |-> e[n].alert, at |-> e[n].at]]

\* C5: a built-in alert handed to the deduplication filter is suppressed
\* exactly when the same (type, message) was delivered less than DedupWindow
\* minutes before, and is delivered otherwise; only deliveries count, so a
\* suppressed emission does not restart the window, and alerts of another
\* type or message are not affected.
C5_DedupWindow ==
    /\ \A i \in 1..Len(emitLog) :
          emitLog[i].sent <=>
             \A j \in 1..(i - 1) :
                (emitLog[j].sent /\ SameAlert(emitLog[j].alert, emitLog[i].alert))
                   => emitLog[i].at - emitLog[j].at >= DedupWindow
    /\ BuiltinDeliveries = PassedEmissions

\* an alert is delivered, suppressed within the window, and delivered again
\* once the window measured from the first delivery has passed, while an
\* alert of another type is delivered inside that window
C5_Witness ==
    \E i, j, k, o \in 1..Len(emitLog) :
       /\ i < j /\ j < k
       /\ SameAlert(emitLog[i].alert, emitLog[j].alert)
       /\ SameAlert(emitLog[i].alert, emitLog[k].alert)
       /\ emitLog[i].sent /\ ~emitLog[j].sent /\ emitLog[k].sent
       /\ emitLog[j].at > emitLog[i].at
       /\ emitLog[k].at - emitLog[j].at < DedupWindow
       /\ ~SameAlert(emitLog[o].alert, emitLog[i].alert)
       /\ emitLog[o].sent
       /\ emitLog[o].at > emitLog[i].at
       /\ emitLog[o].at - emitLog[i].at < DedupWindow
       /\ \A n \in 1..Len(sendLog) : sendLog[n].cbs # <<>>

\* the callbacks a delivery went to
Receivers(s) == {s.cbs[n] : n \in 1..Len(s.cbs)}

\* C6: no subscriber receives two deliveries of the same (type, message),
\* whatever the alert type, less than DedupWindow minutes apart.
C6_NoRepeatDelivery ==
    \A i, j \in 1..Len(sendLog) :
       (/\ i < j
        /\ SameAlert(sendLog[i].alert, sendLog[j].alert)
        /\ Receivers(sendLog[i]) \cap Receivers(sendLog[j]) # {})
       => sendLog[j].at - sendLog[i].at >= DedupWindow

\* the periodic tasks launched and not yet returned
ActiveTasks == pendingGo \cup {l \in LoopIds : loops[l].pc \notin {"none", "done"}}

\* what a call of Start or Stop can change
monitorState == <<running, stopChan, closeCount, pendingGo, loops, alertVars>>

\* C7: while no Stop intervenes, any number of Start calls, one after another
\* or concurrent, leave exactly one periodic task: a Start on a running
\* monitor changes nothing, launches no loop and keeps the stop channel.
C7_StartOnce ==
    /\ [](stopCalls = 0 /\ startCalls > 0
            => running /\ stopChan = 1 /\ ActiveTasks = {1})
    /\ [][StartLocked /\ running => UNCHANGED monitorState]_vars

\* two Start calls and no Stop; the one task is ticking
C7_Witness ==
    /\ startCalls >= 2
    /\ stopCalls = 0
    /\ loops[1].pc = "select"

\* C8: Stop on a Stopped monitor changes no state, and no stop channel is
\* ever closed twice, however Start and Stop calls interleave.
C8_StopIdempotent ==
    /\ [](\A k \in ChanIds : closeCount[k] <= 1)
    /\ [][Stop /\ ~running => UNCHANGED monitorState]_vars

\* the monitor was started and stopped, and Stop was called once more
C8_Witness ==
    /\ startCalls = 1
    /\ stopCalls = 2
    /\ ~running
    /\ closeCount[1] = 1

\* C9: once Stop has returned, no checkAndAlert begins: neither the initial
\* check of a task started before the Stop nor a further timer tick.
C9_NoCheckAfterStop ==
    [][\A l \in LoopIds, o \in Orders(Traders) :
          (LoopInitialCheck(l, o) \/ LoopTick(l, o)) => running]_vars

\* the deliveries of one alert type that reached a subscriber
DeliveriesOf(log, type) ==
    Cardinality({n \in 1..Len(log) : log[n].alert.Type = type /\ log[n].cbs # <<>>})

\* C10: a run of two ticks that see the position set {A} and then {}
\* delivers exactly one position_closed alert and no new_position alert.
C10_TwoTicks ==
    [][\A l \in LoopIds :
          (/\ LoopPositions(l)
           /\ ticks = 2
           /\ alertCallbacks # <<>>
           /\ DOMAIN lastPositions = {PositionKey(parsePosition(posA, "t1"))}
           /\ loops[l].ctx.Positions = <<>>)
          => /\ DeliveriesOf(sendLog', "position_closed") = 1
             /\ DeliveriesOf(sendLog', "new_position") = 0]_vars

\* the loops that hold a snapshot BuildContext has just returned
Checking == {l \in LoopIds : loops[l].pc \in {"alerts", "positions"}}

\* the snapshots just built from a single position
OnePosition == {l \in Checking : Len(loops[l].ctx.Positions) = 1}

\* the levels of the alerts of one type in a snapshot, in order
LevelsOf(ctx, type) ==
    LET a == SelectSeq(ctx.Alerts, LAMBDA x : x.Type = type)
    IN  [n \in 1..Len(a) |-> a[n].Level]

\* the liquidation distance in percent times the mark price
DistanceTimesMark(pos) ==
    IF pos.Side = "long" THEN (pos.MarkPrice - pos.LiquidationPrice) * 100
    ELSE (pos.LiquidationPrice - pos.MarkPrice) * 100

\* C11: a long or short position with positive mark and liquidation price
\* yields one danger liquidation_risk alert when its distance is below 5,
\* one warning alert when it is at least 5 and below 10, none from 10 on;
\* a position whose mark or liquidation price is not positive yields none.
C11_LiquidationAlerts ==
    \A l \in OnePosition :
       LET pos == loops[l].ctx.Positions[1]
           d == DistanceTimesMark(pos)
           levels == LevelsOf(loops[l].ctx, "liquidation_risk")
       IN  pos.Side \in {"long", "short"} =>
              IF pos.MarkPrice > 0 /\ pos.LiquidationPrice > 0
              THEN /\ d < 5 * pos.MarkPrice => levels = <<"danger">>
                   /\ (d >= 5 * pos.MarkPrice /\ d < 10 * pos.MarkPrice)
                         => levels = <<"warning">>
                   /\ d >= 10 * pos.MarkPrice => levels = <<>>
              ELSE levels = <<>>

\* a short position exactly 5 percent from liquidation gets the warning
C11_Witness ==
    \E l \in OnePosition :
       LET pos == loops[l].ctx.Positions[1] IN
       /\ pos.Side = "short"
       /\ pos.MarkPrice = 100 /\ pos.LiquidationPrice = 105
       /\ LevelsOf(loops[l].ctx, "liquidation_risk") = <<"warning">>

\* C12: P&L percent p below -20 yields one danger large_loss alert, from -20
\* and below -10 one warning large_loss alert, from -10 on none; p above 50
\* yields one info large_profit alert, p up to 50 none; no position yields
\* both a large_loss and a large_profit alert.
C12_PnLAlerts ==
    \A l \in OnePosition :
       LET p == loops[l].ctx.Positions[1].PnLPercent
           loss == LevelsOf(loops[l].ctx, "large_loss")
           profit == LevelsOf(loops[l].ctx, "large_profit")
       IN  /\ p.num < -20 * p.den => loss = <<"danger">>
           /\ (p.num >= -20 * p.den /\ p.num < -10 * p.den) => loss = <<"warning">>
           /\ p.num >= -10 * p.den => loss = <<>>
           /\ p.num > 50 * p.den => profit = <<"info">>
           /\ p.num <= 50 * p.den => profit = <<>>
           /\ loss = <<>> \/ profit = <<>>

\* a position at exactly -20 percent gets the warning and no profit alert
C12_Witness ==
    \E l \in OnePosition :
       LET p == loops[l].ctx.Positions[1].PnLPercent IN
       /\ p.num = -20 * p.den
       /\ LevelsOf(loops[l].ctx, "large_loss") = <<"warning">>
       /\ LevelsOf(loops[l].ctx, "large_profit") = <<>>

\* the raw position a single-position snapshot was built from
RawOf(l) == world[loops[l].ctx.Positions[1].TraderID].positions.val[1]

\* C13: the P&L percent of a long position is (mark-entry)/entry*100*leverage
\* and of a short one (entry-mark)/entry*100*leverage, so the same inputs
\* with the other side give the negated value; with entry price or size not
\* positive it is 0.
C13_PnLPercent ==
    \A l \in OnePosition :
       LET pos == loops[l].ctx.Positions[1]
           p == pos.PnLPercent
           long == (pos.MarkPrice - pos.EntryPrice) * 100 * pos.Leverage
           flip == [long |-> "short", short |-> "long"]
       IN  pos.Side \in {"long", "short"} =>
              IF pos.EntryPrice > 0 /\ pos.Size > 0
              THEN /\ pos.Side = "long" => p.num * pos.EntryPrice = long * p.den
                   /\ pos.Side = "short" => p.num * pos.EntryPrice = (-long) * p.den
                   /\ LET q == parsePosition(
                                 [RawOf(l) EXCEPT !.side = AnyString(flip[pos.Side])],
                                 pos.TraderID).PnLPercent
                      IN  p.num * q.den = -(q.num * p.den)
              ELSE p.num = 0

\* entry 100, mark 110, leverage 5, long: the P&L percent is 50
C13_Witness ==
    \E l \in OnePosition :
       LET pos == loops[l].ctx.Positions[1] IN
       /\ pos.Side = "long" /\ pos.Size > 0
       /\ pos.EntryPrice = 100 /\ pos.MarkPrice = 110 /\ pos.Leverage = 5
       /\ pos.PnLPercent.num = 50 * pos.PnLPercent.den

RECURSIVE SumEquity(_)
\* the sum of the Equity fields of a sequence of trader summaries
SumEquity(traders) ==
    IF traders = <<>> THEN 0 ELSE Head(traders).Equity + SumEquity(Tail(traders))

\* C14: in every snapshot TotalEquity is the sum of the Equity fields of the
\* trader summaries of that snapshot, whichever fetches failed.
C14_TotalEquity ==
    \A l \in Checking : loops[l].ctx.TotalEquity = SumEquity(loops[l].ctx.ActiveTraders)

\* one trader's account fetch failed, the other's positions fetch failed,
\* and the other's equity is in the snapshot
C14_Witness ==
    \E l \in Checking :
       /\ world["t1"].account.err
       /\ world["t2"].positions.err
       /\ ~world["t2"].account.err
       /\ Len(loops[l].ctx.ActiveTraders) = 2
       /\ loops[l].ctx.TotalEquity = 20

\* C15: every ToolResult of the dispatcher carries exactly one of result
\* and error, whatever the handler returned.
C15_ExactlyOne ==
    \A t \in Tasks : \A i \in 1..Len(chat[t].results) :
       (chat[t].results[i].result # "nil") # (chat[t].results[i].error # "")

\* the step of task t in which executeToolCalls handles its next call
ExecutesCall(t) ==
    /\ chat[t].pc = "exec"
    /\ Len(chat'[t].results) = Len(chat[t].results) + 1

\* C16: a call naming an unregistered tool yields a ToolResult carrying an
\* error and invokes no handler; the batch goes on with its next call, and
\* after the batch the turn goes on with the next completion call.
C16_UnknownTool ==
    [][\A t \in Tasks :
          /\ ExecutesCall(t) =>
                LET c == chat[t]
                    i == Len(c.results) + 1
                    name == c.calls[i].name
                    unknown == name \notin ToolNames \/ tools[name] = NoTool
                IN  IF unknown
                    THEN /\ chat'[t].results[i] =
                               [name |-> name, result |-> "nil", error |-> "unknown tool"]
                         /\ chat'[t].execLog = c.execLog
                         /\ chat'[t].pc = IF i < Len(c.calls) THEN "exec" ELSE "loop"
                    ELSE /\ chat'[t].execLog = Append(c.execLog, name)
                         /\ chat'[t].results[i].error # "unknown tool"
          /\ (/\ chat[t].pc = "loop" /\ chat'[t].pc # "loop"
              /\ ~chat[t].cancelled
              /\ chat[t].toolCallCount < MaxToolCalls)
                => chat'[t].pc = "calling"]_vars

\* a batch named an unknown tool and then a registered one: only the second
\* ran a handler, and the turn made a further completion call and returned
C16_Witness ==
    /\ ReturnedOk("c1")
    /\ chat["c1"].respLog = <<UnknownFirstResponse, PlainResponse>>
    /\ chat["c1"].dispatchLog = <<"Z", "A">>
    /\ chat["c1"].execLog = <<"A">>
    /\ chat["c1"].aiCalls = 2

\* C17: the tool calls of a turn are handled in request order, one per step:
\* the calls dispatched so far are a prefix of the calls requested so far,
\* the i-th result of a batch belongs to its i-th call, and a finished batch
\* has one result per call.
C17_RequestOrder ==
    /\ [](\A t \in Tasks :
             LET c == chat[t]
                 requested == RequestedCalls(c.respLog)
             IN  /\ Len(c.dispatchLog) <= Len(requested)
                 /\ c.dispatchLog = SubSeq(requested, 1, Len(c.dispatchLog))
                 /\ Len(c.results) <= Len(c.calls)
                 /\ \A i \in 1..Len(c.results) : c.results[i].name = c.calls[i].name
                 /\ c.pc # "exec" => Len(c.results) = Len(c.calls))
    /\ [][\A t \in Tasks :
             Len(chat'[t].dispatchLog) <= Len(chat[t].dispatchLog) + 1]_vars

\* a batch of two different registered tools finished, in request order
C17_Witness ==
    /\ chat["c1"].pc = "loop"
    /\ chat["c1"].respLog = <<TwoToolResponse>>
    /\ chat["c1"].execLog = <<"B", "A">>
    /\ Len(chat["c1"].results) = 2

\* the handler most recently registered under a name, NoTool when none was
LastRegistered(log, name) ==
    LET at == {i \in 1..Len(log) : log[i][1] = name}
    IN  IF at = {} THEN NoTool
        ELSE log[CHOOSE i \in at : \A j \in at : j <= i][2]

\* C18: the registry maps each name to the tool most recently registered
\* under it; registering the same tool again changes nothing, and
\* registering one name leaves the others' entries alone.
C18_LastWriteWins ==
    /\ [](\A n \in ToolNames : tools[n] = LastRegistered(regLog, n))
    /\ [][Len(regLog') = Len(regLog) + 1 =>
             LET reg == regLog'[Len(regLog')] IN
             /\ \A m \in ToolNames \ {reg[1]} : tools'[m] = tools[m]
             /\ (Len(regLog) > 0 /\ regLog[Len(regLog)] = reg) => tools' = tools]_vars

\* a name registered with two handlers, the same tool registered twice in a
\* row, and another name registered in between
C18_Witness ==
    /\ Len(regLog) = 4
    /\ regLog[1] = <<"A", "h1">> /\ regLog[2] = <<"B", "h2">>
    /\ regLog[3] = <<"A", "h2">> /\ regLog[4] = <<"A", "h2">>
    /\ tools = [A |-> "h2", B |-> "h2"]

\* task t's turn has returned the error of a failed completion call
FailedTurn(t) == chat[t].pc = "idle" /\ chat[t].ret # NoRet /\ chat[t].ret.err = "ai"

\* C19: a failed completion call ends the turn at once: Chat returns the
\* error and no response, the failed call is the turn's last completion call,
\* nothing is executed or appended to the session by the return, and the
\* session's last message is still the user's.
C19_CompletionFailure ==
    /\ [](\A t \in Tasks :
             FailedTurn(t) =>
                /\ chat[t].ret.text = <<>>
                /\ chat[t].aiCalls = Len(chat[t].respLog) + 1
                /\ LET m == sessions[chat[t].sid].messages
                   IN  m # <<>> /\ m[Len(m)].role = "user")
    /\ [][\A t \in Tasks :
             /\ (chat[t].pc = "calling" /\ FailedTurn(t)') =>
                   /\ sessions' = sessions
                   /\ addLog' = addLog
                   /\ chat'[t].execLog = chat[t].execLog
                   /\ chat'[t].aiCalls = chat[t].aiCalls + 1
             /\ (FailedTurn(t) /\ chat'[t] # chat[t]) =>
                   chat'[t].pc = "am_lock" /\ chat'[t].aiCalls = 0]_vars

\* a turn ran a batch that came with prose, and its next completion call failed
C19_Witness ==
    /\ FailedTurn("c1")
    /\ chat["c1"].respLog = <<TwoCallResponse>>
    /\ chat["c1"].aiCalls = 2

\* C20: a cancelled context ends the turn only at the head of a loop
\* iteration, with the context's error and without another completion call;
\* a completion call or tool execution is never cut short, so a turn
\* cancelled during a completion call that returns plain text succeeds.
C20_CancelAtBoundary ==
    /\ [](\A t \in Tasks :
             LET c == chat[t] IN
             (/\ c.pc = "idle" /\ c.ret # NoRet
              /\ c.respLog # <<>> /\ c.aiCalls = Len(c.respLog)
              /\ IsPlainText(c.respLog[Len(c.respLog)]))
                => c.ret.err = "nil" /\ c.ret.text = c.respLog[Len(c.respLog)])
    /\ [][\A t \in Tasks :
             /\ (chat[t].pc = "loop" /\ chat'[t].pc # "loop" /\ chat[t].cancelled) =>
                   /\ chat'[t].pc = "idle"
                   /\ chat'[t].ret = [text |-> <<>>, err |-> "ctx"]
                   /\ chat'[t].aiCalls = chat[t].aiCalls
             /\ (chat[t].pc \in {"calling", "exec"} /\ chat'[t].pc = "idle") =>
                   chat'[t].ret.err # "ctx"
             /\ (chat[t].pc \in {"calling", "exec"} /\ chat'[t].cancelled
                   /\ ~chat[t].cancelled) => chat'[t].pc = chat[t].pc]_vars

\* the context was cancelled during the completion call that returned the
\* final plain text, and the turn returned it
C20_Witness ==
    /\ ReturnedOk("c1")
    /\ chat["c1"].cancelled
    /\ chat["c1"].respLog = <<PlainResponse>>

\* the prose of the last response of rs that came with prose around its
\* tool-call block, the empty text when none did
LastProse(rs) ==
    LET I == {i \in 1..Len(rs) : parseResponse(rs[i]).textResponse # <<>>}
    IN  IF I = {} THEN <<>>
        ELSE parseResponse(rs[CHOOSE i \in I : \A j \in I : j <= i]).textResponse

\* C21: once the calls requested in a turn add up to MaxToolCalls the loop
\* ends without another completion call: Chat returns without error the
\* prose of the last tool-call block that carried prose (the empty text when
\* none did), that text is the assistant message appended to the session,
\* and the last batch was executed but no completion call followed it.
C21_CapReached ==
    /\ [](\A t \in Tasks :
             LET c == chat[t]
                 n == Len(c.respLog)
                 m == sessions[c.sid].messages
             IN  (ReturnedOk(t) /\ n >= 1
                    /\ \A i \in 1..n : IsToolCallBlock(c.respLog[i]))
                 => /\ Len(RequestedCalls(c.respLog)) >= MaxToolCalls
                    /\ c.aiCalls = n
                    /\ c.dispatchLog = RequestedCalls(c.respLog)
                    /\ c.ret.text = LastProse(c.respLog)
                    /\ m # <<>> /\ m[Len(m)] = Message("assistant", c.ret.text))
    /\ [][\A t \in Tasks :
             (/\ chat[t].pc = "loop" /\ chat'[t].pc # "loop"
              /\ ~chat[t].cancelled
              /\ chat[t].toolCallCount >= MaxToolCalls)
             => /\ chat'[t].pc = "am_lock"
                /\ chat'[t].cont = "return"
                /\ chat'[t].msg = Message("assistant", chat[t].finalResponse)
                /\ chat'[t].aiCalls = chat[t].aiCalls]_vars

\* a turn whose first block carried prose and whose second block, without
\* prose, reached the bound has returned the first block's prose
C21_Witness ==
    /\ ReturnedOk("c1")
    /\ chat["c1"].respLog = <<TwoCallResponse, OneCallResponse>>
    /\ chat["c1"].ret.text = <<"y">>
    /\ chat["c1"].aiCalls = 2

\* a turn that reached the bound with blocks that carried no prose has
\* returned the empty text
C21_WitnessEmpty ==
    /\ ReturnedOk("c1")
    /\ chat["c1"].respLog = <<OneCallResponse, OneCallResponse, OneCallResponse>>
    /\ chat["c1"].ret.text = <<>>

\* the response holds no brace pair, or the text from its first "{" to its
\* last "}" is not a JSON document of the tool-call shape
Undecodable(r) ==
    LET start == Index(r, "{", 1)
        end == LastIndex(r, "}", Len(r))
    IN  \/ start = 0
        \/ end <= start
        \/ ~Unmarshal(SubSeq(r, start, end)).ok

\* C22: a response without a decodable tool-call block ends the turn: no
\* tool is dispatched for it, no further completion call is made, and the
\* response as received, white space included, is the assistant message and
\* the text Chat returns.
C22_RawFallback ==
    /\ [](\A t \in Tasks :
             LET c == chat[t]
                 n == Len(c.respLog)
             IN  (/\ c.pc = "idle" /\ c.ret # NoRet
                  /\ n >= 1 /\ c.aiCalls = n
                  /\ Undecodable(c.respLog[n]))
                 => /\ c.ret = [text |-> c.respLog[n], err |-> "nil"]
                    /\ c.dispatchLog = RequestedCalls(SubSeq(c.respLog, 1, n - 1)))
    /\ [][\A t \in Tasks :
             LET n == Len(chat'[t].respLog) IN
             (/\ chat[t].pc = "calling"
              /\ n = Len(chat[t].respLog) + 1
              /\ Undecodable(chat'[t].respLog[n]))
             => /\ chat'[t].pc = "am_lock"
                /\ chat'[t].cont = "return"
                /\ chat'[t].msg = Message("assistant", chat'[t].respLog[n])
                /\ chat'[t].finalResponse = chat'[t].respLog[n]
                /\ chat'[t].dispatchLog = chat[t].dispatchLog
                /\ toolReaders' = toolReaders]_vars

\* after a batch of tool calls the model answered a block that does not
\* decode, and the turn returned that response as received
C22_Witness ==
    /\ ReturnedOk("c1")
    /\ chat["c1"].respLog = <<OneCallResponse, BadBlockResponse>>
    /\ chat["c1"].ret.text = BadBlockResponse
    /\ chat["c1"].execLog # <<>>

\* C23: a Chat turn appends the user's message before its first completion
\* call and, when it returns an answer, one assistant message whose content
\* is the returned text, directly after it: two messages for a successful
\* turn, and never a message of another role.
C23_TwoAppends ==
    /\ [](LET log == addLog["s1"]
              c == chat["c1"]
              n == Len(log)
          IN  /\ \A i \in 1..n : log[i].role \in {"user", "assistant"}
              /\ n <= 2 * turns
              /\ (c.aiCalls >= 1 /\ c.pc \in {"loop", "calling", "exec", "am_lock"}) =>
                    n >= 1 /\ log[n] = Message("user", <<"u1">>)
              /\ ReturnedOk("c1") =>
                    /\ n >= 2
                    /\ log[n - 1] = Message("user", <<"u1">>)
                    /\ log[n] = Message("assistant", c.ret.text)
              /\ (ReturnedOk("c1") /\ turns = 1) => n = 2)
    /\ [][LET log == addLog["s1"]
              c == chat["c1"]
          IN  log' # log =>
                /\ Len(log') = Len(log) + 1
                /\ SubSeq(log', 1, Len(log)) = log
                /\ \/ /\ log'[Len(log')] = Message("user", <<"u1">>)
                      /\ c.cont = "build" /\ c.aiCalls = 0
                   \/ /\ log'[Len(log')] = Message("assistant", c.finalResponse)
                      /\ c.cont = "return" /\ c.aiCalls >= 1]_vars

\* a turn that ran a batch of tool calls and then answered plain text left
\* the user's message and the answer, and nothing else, in the session
C23_Witness ==
    /\ ReturnedOk("c1")
    /\ turns = 1
    /\ chat["c1"].respLog = <<OneCallResponse, PlainResponse>>
    /\ addLog["s1"] = <<Message("user", <<"u1">>), Message("assistant", PlainResponse)>>

\* callers use one session directly and write into the slices they were given
NextCopy ==
    \/ \E t \in Tasks, sid \in SessionIds : GetMessages(t, sid)
    \/ \E t \in Tasks, i \in 1..MaxHistoryMessages : WriteHeld(t, i)
    \/ \E sid \in SessionIds : ApiAddMessage("c2", sid, <<"u1">>)
    \/ AddMessageAppend("c2")
    \/ AddMessageTrim("c2")
    \/ \E sid \in SessionIds : Clear("c2", sid)
    \/ \E sid \in SessionIds : sessions[sid] = NoSession /\ GetSession(sid)

SpecCopy == Init /\ [][NextCopy]_vars

\* C24: the sequence GetMessages returns is the caller's own: writing into
\* it leaves the session's history and every other caller's sequence as they
\* were, and no later AddMessage, Clear or other step changes what a caller
\* holds, until that caller calls GetMessages again or writes into it.
C24_IndependentCopy ==
    [][\A t \in Tasks :
          /\ (\E i \in 1..MaxHistoryMessages : WriteHeld(t, i)) =>
                /\ sessions' = sessions
                /\ \A u \in Tasks \ {t} : HeldBy(u)' = HeldBy(u)
          /\ (/\ ~ \E sid \in SessionIds : GetMessages(t, sid)
              /\ ~ \E i \in 1..MaxHistoryMessages : WriteHeld(t, i)) =>
                HeldBy(t)' = HeldBy(t)]_vars

\* a caller overwrote the first message of the sequence it was given, the
\* session was cleared and refilled since, and neither shows in the other
C24_Witness ==
    /\ Len(held["c1"].elems) = MaxHistoryMessages
    /\ held["c1"].elems[1] = Scribble
    /\ held["c1"].elems[MaxHistoryMessages] = Message("user", <<"u1">>)
    /\ smu["s1"] = "free"
    /\ sessions["s1"].messages = <<Message("user", <<"u1">>)>>
    /\ addLog["s1"] = sessions["s1"].messages

\* C25: GetSession creates a session only for an id that has none, empty and
\* with the configured capacity; for an id that has one it hands out that
\* session as it is, so callers that race on a new id share one session;
\* a session is never removed and its id and capacity never change.
C25_GetOrCreate ==
    /\ [](\A sid \in SessionIds :
             sessions[sid] # NoSession =>
                /\ sessions[sid].id = sid
                /\ sessions[sid].maxMessages = MaxHistoryMessages)
    /\ [][\A sid \in SessionIds :
             /\ sessions[sid] # NoSession => sessions'[sid] # NoSession
             /\ (sessions[sid] = NoSession /\ sessions'[sid] # NoSession) =>
                   sessions'[sid] = NewSession(sid, MaxHistoryMessages)
             /\ (sessions[sid] # NoSession /\ sessions'[sid] # sessions[sid]) =>
                   (smu' # smu \/ addLog' # addLog)
             /\ \A t \in Tasks :
                   (chat[t].pc = "idle" /\ chat'[t].pc = "am_lock"
                      /\ sessions[sid] # NoSession) => sessions'[sid] = sessions[sid]]_vars

\* two callers started a turn on an id that had no session, and the
\* messages of both are in the one session of that id
C25_Witness ==
    /\ turns = 2
    /\ chat["c1"].pc = "build" /\ chat["c2"].pc = "build"
    /\ sessions["s1"].messages =
          <<Message("user", <<"c1">>), Message("user", <<"c2">>)>>

\* the elements of a sequence
Elems(s) == {s[i] : i \in DOMAIN s}

RECURSIVE SumOver(_, _)
\* the sum of f over the set S
SumOver(f, S) ==
    IF S = {} THEN 0
    ELSE LET x == CHOOSE x \in S : TRUE IN f[x] + SumOver(f, S \ {x})

\* what one trader contributes to a snapshot, from its own answers alone
EquityFrom(t) ==
    IF world[t].account.err THEN 0 ELSE AsFloat64(world[t].account.val.total_equity)
BalanceFrom(t) ==
    IF world[t].account.err THEN 0 ELSE AsFloat64(world[t].account.val.available_balance)
PositionsFrom(t) ==
    IF world[t].positions.err THEN <<>> ELSE TraderPositions(world[t].positions.val, t)

\* C26: a failed account or positions fetch never aborts a snapshot: every
\* trader has exactly one summary, with zero for the figure whose fetch
\* failed, and each trader's equity, balance, positions and alerts are in
\* the snapshot as its own answers give them, whatever the others answered.
C26_PartialSnapshot ==
    \A l \in Checking :
       LET ctx == loops[l].ctx IN
       /\ \A t \in Traders :
             /\ Cardinality({n \in 1..Len(ctx.ActiveTraders) :
                               ctx.ActiveTraders[n].ID = t}) = 1
             /\ \A n \in 1..Len(ctx.ActiveTraders) :
                   ctx.ActiveTraders[n].ID = t =>
                      /\ ctx.ActiveTraders[n].Equity = EquityFrom(t)
                      /\ ctx.ActiveTraders[n].PositionCount =
                            (IF world[t].positions.err THEN 0
                             ELSE Len(world[t].positions.val))
             /\ SelectSeq(ctx.Positions, LAMBDA p : p.TraderID = t) = PositionsFrom(t)
             /\ \A a \in Elems(AlertsOf(PositionsFrom(t))) : a \in Elems(ctx.Alerts)
       /\ ctx.Alerts = AlertsOf(ctx.Positions)
       /\ ctx.TotalEquity = SumOver([t \in Traders |-> EquityFrom(t)], Traders)
       /\ ctx.AvailableBalance = SumOver([t \in Traders |-> BalanceFrom(t)], Traders)

\* the account fetch of one trader and the positions fetch of the other
\* failed: both are listed, and the snapshot holds the first one's position
\* and alert and the second one's equity and balance
C26_Witness ==
    \E l \in Checking :
       LET ctx == loops[l].ctx IN
       /\ world["t1"].account.err /\ ~world["t1"].positions.err
       /\ world["t2"].positions.err /\ ~world["t2"].account.err
       /\ Len(ctx.ActiveTraders) = 2
       /\ Len(ctx.Positions) = 1 /\ ctx.Positions[1].TraderID = "t1"
       /\ ctx.Alerts # <<>>
       /\ ctx.TotalEquity = 10 /\ ctx.AvailableBalance = 5

\* C27: Chat turns on one session are not serialized: Session.mu is held
\* only inside a single AddMessage, and a turn builds its prompt from
\* whatever the history holds at that moment, the messages of other turns
\* in progress included.
C27_NotSerialized ==
    /\ [](\A t \in Tasks, sid \in SessionIds : smu[sid] = t => chat[t].pc = "am_trim")
    /\ [][\A t \in Tasks :
             (chat[t].pc = "build" /\ chat'[t].pc = "loop") =>
                chat'[t].prompt = <<[tools |-> {n \in ToolNames : tools[n] # NoTool},
                                     history |-> sessions[chat[t].sid].messages]>>]_vars

\* both turns appended their user message before either answer, and the
\* prompt of the second holds the user message of the first
C27_Witness ==
    /\ chat["c1"].pc = "calling" /\ chat["c2"].pc = "calling"
    /\ addLog["s1"] = <<Message("user", <<"c1">>), Message("user", <<"c2">>)>>
    /\ chat["c2"].prompt[1].history = addLog["s1"]
    /\ chat["c1"].prompt[1].history = <<Message("user", <<"c1">>)>>

\* both turns returned and the messages appended to the session are two
\* user messages followed by two assistant messages
C27_WitnessUnpaired ==
    /\ ReturnedOk("c1") /\ ReturnedOk("c2")
    /\ addLog["s1"] = <<Message("user", <<"c1">>), Message("user", <<"c2">>),
                        Message("assistant", PlainResponse),
                        Message("assistant", PlainResponse)>>

(* -------------------------- strategy tools ---------------------------- *)
\* strategies stored in one behaviour
MaxStrategies == 2

\* the grid_count values a caller may send: integer literals around the
\* bounds, a literal with a fraction, and an absent key
GridCounts ==
    {AnyInt(n) : n \in {1, 2, 9, 10, 100, 101}} \cup {AnyFloat(10), NilNum}
\* the arguments of create_grid_strategy: prices are JSON numbers
GridArgs == [lower_price : {100, 200}, upper_price : {100, 200}, grid_count : GridCounts]

\* json.Unmarshal of the arguments: grid_count is an int field, so a number
\* with a fraction is a decode error and an absent key leaves zero
GridDecodeError(args) == args.grid_count.type \notin {"int", "nil"}

\* a handler that enforces the range its parameter schema documents
GridCountRejected_Schema(count) == count < 10 \/ count > 100
\* the handler's test: `params.GridCount < 2 || params.GridCount > 100`
GridCountRejected(count) == count < 2 \/ count > 100

\* the error the handler of create_grid_strategy returns, "nil" when it
\* goes on to store the strategy
GridError(args) ==
    IF GridDecodeError(args) THEN "invalid arguments"
    ELSE IF args.lower_price >= args.upper_price THEN "lower_price"
    ELSE IF GridCountRejected(AsInt(args.grid_count)) THEN "grid_count"
    ELSE "nil"

\* StrategyBuilder.CreateGridStrategy: a new strategy under a fresh id
CreateGridStrategy(id, args) ==
    [ID |-> id, lower_price |-> args.lower_price, upper_price |-> args.upper_price,
     grid_count |-> AsInt(args.grid_count)]

\* the handler of create_grid_strategy, called with `args`
CreateGridStrategyTool(args) ==
    /\ Len(strategies) < MaxStrategies
    /\ gridRet' = [args |-> args, err |-> GridError(args)]
    /\ strategies' = IF GridError(args) = "nil"
                     THEN Append(strategies, CreateGridStrategy(Len(strategies) + 1, args))
                     ELSE strategies
    /\ UNCHANGED <<monVars, regLog, held, tools, toolReaders, sessions, smu, chat,
                   observed, addLog, turns>>

\* the model calls create_grid_strategy with arguments of its choice
NextGrid == \E args \in GridArgs : CreateGridStrategyTool(args)

SpecGrid == Init /\ [][NextGrid]_vars

\* C28 as stated: create_grid_strategy stores a strategy only for a
\* grid_count between 10 and 100 and a lower_price below upper_price, and
\* returns an error and stores nothing otherwise.
C28_GridCountRange ==
    /\ \A n \in 1..Len(strategies) :
          /\ strategies[n].grid_count >= 10 /\ strategies[n].grid_count <= 100
          /\ strategies[n].lower_price < strategies[n].upper_price
    /\ (gridRet # NoRet /\ gridRet.err = "nil") =>
          /\ AsInt(gridRet.args.grid_count) >= 10
          /\ AsInt(gridRet.args.grid_count) <= 100

\* what the handler does enforce: a stored strategy has a grid_count
\* between 2 and 100 and a lower_price below its upper_price, and a call
\* that returned an error stored nothing
C28_GridCountFrom2 ==
    /\ [](\A n \in 1..Len(strategies) :
             /\ strategies[n].grid_count >= 2 /\ strategies[n].grid_count <= 100
             /\ strategies[n].lower_price < strategies[n].upper_price)
    /\ [][(gridRet' # gridRet /\ gridRet'.err # "nil") => strategies' = strategies]_vars

\* a strategy with two grids is stored
C28_Witness ==
    /\ gridRet # NoRet /\ gridRet.err = "nil"
    /\ gridRet.args.grid_count = AnyInt(2)
    /\ strategies # <<>> /\ strategies[Len(strategies)].grid_count = 2

(* ------------------- registration during execution -------------------- *)
\* a tool handler invoked by executeToolCalls calls Agent.RegisterTool: the
\* call waits in toolsLock.Lock() until no reader holds the lock, and the
\* calling task is itself a reader until executeToolCalls returns
HandlerRegisterTool(t) ==
    /\ chat[t].pc = "exec"
    /\ t \in toolReaders
    /\ Registered(NextCall(chat[t].calls, chat[t].results).name)
    /\ chat' = [chat EXCEPT ![t].pc = "reg_lock"]
    /\ UNCHANGED <<monVars, stratVars, regLog, held, tools, toolReaders, sessions, smu,
                   observed, addLog, turns>>

\* one caller runs Chat turns whose handlers may register tools, while
\* another task registers tools
NextLocks ==
    \/ ChatStep("c1", {<<"u1">>}, {PlainResponse, OneCallResponse, TwoToolResponse},
                {OkOutcome})
    \/ \E n \in ToolNames : tools[n] = NoTool /\ RegisterTool(n, "h1")
    \/ HandlerRegisterTool("c1")

SpecLocks == Init /\ [][NextLocks]_vars

\* C29 as stated: no lock is held by a task while its completion call or a
\* tool handler is in progress, so a RegisterTool call made meanwhile, from
\* the handler or from another task, is never kept waiting.
C29_NoLockAcrossCalls ==
    \A t \in Tasks :
       chat[t].pc \in {"calling", "exec", "reg_lock"} =>
          /\ t \notin toolReaders
          /\ \A sid \in SessionIds : smu[sid] # t

\* what does hold: no lock is held during a completion call, and Session.mu
\* is never held during a tool handler
C29_NoLockAcrossCompletion ==
    \A t \in Tasks :
       /\ chat[t].pc = "calling" => t \notin toolReaders
       /\ chat[t].pc \in {"calling", "exec", "reg_lock"} =>
             \A sid \in SessionIds : smu[sid] # t

\* a handler waits for the write lock while its own task holds the read
\* lock: neither can proceed
C29_Witness ==
    /\ chat["c1"].pc = "reg_lock"
    /\ "c1" \in toolReaders
    /\ ~ ENABLED NextLocks

\* the position alerts among the entries of a send log
PositionSends(log) ==
    SelectSeq(log, LAMBDA e : e.alert.Type \in {"new_position", "position_closed"})

\* C30: checkPositionChanges compares the snapshot's positions with the
\* remembered ones by key: it sends one new_position alert for each key that
\* is in the snapshot and was not remembered, one position_closed alert for
\* each remembered key that is not in the snapshot, nothing else, and then
\* remembers exactly the snapshot's positions.
C30_PositionDiff ==
    [][\A l \in LoopIds :
          (loops[l].pc = "positions" /\ loops'[l].pc = "select") =>
             LET positions == loops[l].ctx.Positions
                 cur == KeysOf(positions)
                 before == DOMAIN lastPositions
                 new == SubSeq(sendLog', Len(sendLog) + 1, Len(sendLog'))
             IN  /\ SubSeq(sendLog', 1, Len(sendLog)) = sendLog
                 /\ Len(new) = Cardinality(cur \ before) + Cardinality(before \ cur)
                 /\ \A n \in 1..Len(positions) :
                       PositionKey(positions[n]) \notin before =>
                          Cardinality({i \in 1..Len(new) :
                             new[i].alert = NewPositionAlert(positions[n])}) = 1
                 /\ \A k \in before \ cur :
                       Cardinality({i \in 1..Len(new) :
                          new[i].alert = PositionClosedAlert(lastPositions[k])}) = 1
                 /\ DOMAIN lastPositions' = cur
                 /\ \A n \in 1..Len(positions) :
                       lastPositions'[PositionKey(positions[n])] = positions[n]]_vars

\* trader t1's position was seen by two ticks and trader t2's by the second
\* only: one new_position alert for each, and both are remembered
C30_Witness ==
    /\ ticks = 2
    /\ \A l \in LoopIds : loops[l].pc \in {"none", "select"}
    /\ DOMAIN lastPositions = {PositionKey(parsePosition(posA, "t1")),
                               PositionKey(parsePosition(posB, "t2"))}
    /\ Len(PositionSends(sendLog)) = 2
    /\ PositionSends(sendLog)[1].alert = NewPositionAlert(parsePosition(posA, "t1"))
    /\ PositionSends(sendLog)[2].alert = NewPositionAlert(parsePosition(posB, "t2"))

\* a tick saw one position open and the other gone
C30_WitnessSwap ==
    /\ ticks = 2
    /\ DOMAIN lastPositions = {PositionKey(parsePosition(posB, "t2"))}
    /\ Len(PositionSends(sendLog)) = 3
    /\ PositionSends(sendLog)[1].alert = NewPositionAlert(parsePosition(posA, "t1"))
    /\ {PositionSends(sendLog)[2].alert, PositionSends(sendLog)[3].alert} =
          {NewPositionAlert(parsePosition(posB, "t2")),
           PositionClosedAlert(parsePosition(posA, "t1"))}

(* ------------------------ callback goroutines ------------------------- *)
\* the goroutines `go cb(alert)` has launched: delivery n, callback k of it
Spawned == {<<n, k>> : n \in 1..Len(sendLog), k \in 1..MaxCallbacks} \cap
           {id \in (1..Len(sendLog)) \X (1..MaxCallbacks) :
               id[2] <= Len(sendLog[id[1]].cbs)}

\* the goroutines still inside their callback and able to go on
RunningCallbacks == Spawned \ (cbTasks.returned \cup cbTasks.blocked)

\* the callback a goroutine runs
CallbackOf(id) == sendLog[id[1]].cbs[id[2]]

\* a callback returns, having handled the alert or failed to
CallbackReturns(id) ==
    /\ id \in RunningCallbacks
    /\ cbTasks' = [cbTasks EXCEPT !.returned = @ \cup {id}]
    /\ UNCHANGED <<agentVars, lifeVars, loops, alertVars, now, world, ticks, interval, config, syncVars, botVars>>

\* a callback blocks for ever
CallbackBlocks(id) ==
    /\ id \in RunningCallbacks
    /\ cbTasks' = [cbTasks EXCEPT !.blocked = @ \cup {id}]
    /\ UNCHANGED <<agentVars, lifeVars, loops, alertVars, now, world, ticks, interval, config, syncVars, botVars>>

FanoutCallbacks == {"cb1", "cb2"}
FanoutWorlds ==
    {NoPositions,
     [t \in Traders |-> IF t = "t1" THEN TraderState(Account10, Fetched(<<posB>>))
                        ELSE TraderState(Account10, Fetched(<<>>))]}

\* a started monitor ticks while subscribers register; the callback cb1
\* blocks for ever and the callback cb2 returns
NextFanout ==
    \/ ~running /\ StartLocked
    \/ \E k \in LoopIds : StartGo(k)
    \/ \E cb \in FanoutCallbacks :
          (\A k \in 1..Len(alertCallbacks) : alertCallbacks[k] # cb) /\ OnAlert(cb)
    \/ \E l \in LoopIds : LoopInitialCheck(l, <<"t1", "t2">>)
    \/ \E l \in LoopIds : LoopTick(l, <<"t1", "t2">>)
    \/ \E l \in LoopIds : LoopAlert(l)
    \/ \E l \in LoopIds : LoopPositions(l)
    \/ \E w \in FanoutWorlds : Waiting /\ SetWorld(w)
    \/ \E id \in RunningCallbacks : CallbackOf(id) = "cb2" /\ CallbackReturns(id)
    \/ \E id \in RunningCallbacks : CallbackOf(id) = "cb1" /\ CallbackBlocks(id)

SpecFanout == Init /\ [][NextFanout]_vars

SpecLifeFair ==
    /\ SpecLife
    /\ \A l \in LoopIds :
          /\ WF_vars(StartGo(l))
          /\ WF_vars(\E o \in Orders(Traders) : LoopInitialCheck(l, o))
          /\ WF_vars(LoopPositions(l))
          /\ SF_vars(LoopReturn(l))

\* C32: if from some point on the monitor stays Stopped, then from some
\* point on no periodic task of it is left: every loop has returned.
C32_LoopsTerminate == <>[](~running) => <>[](ActiveTasks = {})

\* two loops were alive across a Stop, Start, Stop and both have returned
C32_Witness ==
    /\ ~running
    /\ stopCalls = 2
    /\ startCalls = 2
    /\ loops[1].pc = "done" /\ loops[2].pc = "done"
    /\ closeCount[2] = 1
    /\ ticks > 2

\* the loops that have begun and not returned
AliveLoops == {l \in LoopIds : loops[l].pc \notin {"none", "done"}}

\* C33 as stated: a loop launched by an earlier Start never goes on ticking
\* beside the loop of a later Start: while a later loop is alive, an earlier
\* one is not back in its select waiting on a channel that is still open.
C33_AtMostOneLoop ==
    \A l1, l2 \in LoopIds :
       (l1 < l2 /\ l2 \in AliveLoops) =>
          ~(loops[l1].pc = "select" /\ closeCount[loops[l1].ch] = 0)

\* the loop of the first Start ran a check across Stop and Start and now
\* waits on the second Start's channel, beside the second loop
C33_TwoLoops ==
    /\ running
    /\ stopChan = 2
    /\ loops[1].pc = "select" /\ loops[1].ch = 2
    /\ loops[2].pc = "select" /\ loops[2].ch = 2
    /\ closeCount[2] = 0

\* trader t1 holds position A throughout; its GetPositions fails now and then
FetchWorlds ==
    {[t \in Traders |-> IF t = "t1" THEN TraderState(Account10, f)
                        ELSE TraderState(Account10, Fetched(<<>>))] :
        f \in {Fetched(<<posA>>), PositionsFailed}}

\* a started monitor ticks while the positions fetch of one trader fails and
\* recovers
NextFetch ==
    \/ ~running /\ StartLocked
    \/ \E k \in LoopIds : StartGo(k)
    \/ \E cb \in Callbacks : ~running /\ alertCallbacks = <<>> /\ OnAlert(cb)
    \/ \E l \in LoopIds, o \in Orders(Traders) : LoopInitialCheck(l, o)
    \/ \E l \in LoopIds, o \in Orders(Traders) : LoopTick(l, o)
    \/ \E l \in LoopIds : LoopAlert(l)
    \/ \E l \in LoopIds : LoopPositions(l)
    \/ \E t \in Instants : Waiting /\ Advance(t)
    \/ \E w \in FetchWorlds : Waiting /\ SetWorld(w)

InitFetch == InitAgent /\ InitMonitorIn(FetchWorlds)

SpecFetch == InitFetch /\ [][NextFetch]_vars

\* C34: on a tick where a trader's positions fetch fails, every remembered
\* position of that trader is reported position_closed and forgotten; on a
\* tick where the fetch succeeds, every position of the trader that is not
\* remembered is reported new_position, whether or not it ever changed.
C34_FalseCloseOnFailure ==
    [][\A l \in LoopIds :
          (loops[l].pc = "positions" /\ loops'[l].pc = "select") =>
             LET new == SubSeq(sendLog', Len(sendLog) + 1, Len(sendLog')) IN
             \A t \in Traders :
                /\ world[t].positions.err =>
                      \A k \in DOMAIN lastPositions :
                         lastPositions[k].TraderID = t =>
                            /\ k \notin DOMAIN lastPositions'
                            /\ Cardinality({i \in 1..Len(new) : new[i].alert =
                                  PositionClosedAlert(lastPositions[k])}) = 1
                /\ ~world[t].positions.err =>
                      \A n \in 1..Len(PositionsFrom(t)) :
                         PositionKey(PositionsFrom(t)[n]) \notin DOMAIN lastPositions =>
                            /\ PositionKey(PositionsFrom(t)[n]) \in DOMAIN lastPositions'
                            /\ \E i \in 1..Len(new) : new[i].alert =
                                  NewPositionAlert(PositionsFrom(t)[n])]_vars

\* the trader held position A at all three ticks and the fetch failed at the
\* second: the monitor sent new_position, position_closed and new_position
C34_Witness ==
    /\ ticks = 3
    /\ ~world["t1"].positions.err
    /\ Len(PositionSends(sendLog)) = 3
    /\ PositionSends(sendLog)[1].alert = NewPositionAlert(parsePosition(posA, "t1"))
    /\ PositionSends(sendLog)[2].alert = PositionClosedAlert(parsePosition(posA, "t1"))
    /\ PositionSends(sendLog)[3].alert = NewPositionAlert(parsePosition(posA, "t1"))

\* C35: during a Chat turn the session's history is written only by
\* AddMessage (append, then trim to the maximum), and a turn that returns an
\* error (failed completion call or cancelled context) has called AddMessage
\* only for its user message: at the error return the history is still the
\* one read right after that append, it ends with the user message and holds
\* no assistant message of the turn, and the tools the turn has executed stay
\* executed.
C35_ErrorTurnKeepsUserMessage ==
    [][\A t \in Tasks :
          LET sid == chat[t].sid
              msgs == sessions[sid].messages IN
          /\ (chat[t].pc # "idle" /\ sessions' # sessions) =>
                \/ /\ chat[t].pc = "am_lock"
                   /\ sessions'[sid].messages = Append(msgs, chat[t].msg)
                \/ /\ chat[t].pc = "am_trim"
                   /\ sessions'[sid].messages =
                         TrimMessages(msgs, sessions[sid].maxMessages)
          /\ (chat[t].pc \in {"loop", "calling"} /\ chat'[t].pc = "idle") =>
                /\ chat'[t].ret.err \in {"ai", "ctx"}
                /\ sessions' = sessions
                /\ chat[t].cont = "build"
                /\ chat[t].msg.role = "user"
                /\ msgs = chat[t].prompt[1].history
                /\ msgs[Len(msgs)] = chat[t].msg
                /\ chat'[t].execLog = chat[t].execLog
                /\ chat'[t].dispatchLog = chat[t].dispatchLog]_vars

\* the second turn executed tool A and then its completion call failed: the
\* history ends with the turn's user message, and the execution stays
C35_Witness ==
    /\ turns = 2
    /\ chat["c1"].pc = "idle"
    /\ chat["c1"].ret = [text |-> <<>>, err |-> "ai"]
    /\ chat["c1"].execLog = <<"A">>
    /\ Len(sessions["s1"].messages) = 2
    /\ sessions["s1"].messages[1].role = "assistant"
    /\ sessions["s1"].messages[2] = Message("user", <<"u1">>)

\* the configured maxima Chat is run with, and the responses it is answered
CapValues == {-1, 0, 1, MaxToolCalls}
CapResponses == {PlainResponse, OneCallResponse, TwoCallResponse}

\* one caller runs Chat turns under every configured maximum
NextCap ==
    \/ ChatStep("c1", {<<"u1">>}, CapResponses, {OkOutcome})
    \/ tools["A"] = NoTool /\ RegisterTool("A", "h1")

InitCap == InitAgentWith(CapValues) /\ InitMonitor

SpecCap == InitCap /\ [][NextCap]_vars

\* every completion call and every tool execution returns, and the caller's
\* task keeps running
SpecCapFair ==
    /\ SpecCap
    /\ \A t \in Tasks :
          /\ WF_vars(ChatBuild(t))
          /\ WF_vars(ChatIter(t))
          /\ WF_vars(ChatCompletionFails(t) \/ \E r \in CapResponses : ChatCompletion(t, r))
          /\ WF_vars(ChatExecute(t, OkOutcome))
          /\ WF_vars(AddMessageAppend(t))
          /\ WF_vars(AddMessageTrim(t))

\* C36: every Chat turn terminates; with MaxToolCalls >= 1 it makes at most
\* MaxToolCalls completion calls; with MaxToolCalls <= 0 it makes none, and
\* unless its context was cancelled it returns the empty text with no error
\* after appending an assistant message with empty content.
C36_TurnTerminates ==
    /\ \A t \in Tasks : (chat[t].pc # "idle") ~> (chat[t].pc = "idle")
    /\ [](\A t \in Tasks :
            /\ config.MaxToolCalls >= 1 => chat[t].aiCalls <= config.MaxToolCalls
            /\ config.MaxToolCalls <= 0 => chat[t].aiCalls = 0)
    /\ [][\A t \in Tasks :
            (config.MaxToolCalls <= 0 /\ chat[t].pc # "idle" /\ chat'[t].pc = "idle") =>
               LET msgs == sessions'[chat[t].sid].messages IN
               \/ chat[t].cancelled /\ chat'[t].ret.err = "ctx"
               \/ /\ chat'[t].ret = [text |-> <<>>, err |-> "nil"]
                  /\ msgs[Len(msgs)] = Message("assistant", <<>>)
                  /\ ~chat[t].cancelled]_vars

\* a turn under MaxToolCalls = 0 has returned the empty text without a
\* completion call, leaving an empty assistant message after the user's
C36_Witness ==
    /\ config.MaxToolCalls = 0
    /\ ReturnedOk("c1")
    /\ chat["c1"].ret.text = <<>>
    /\ chat["c1"].aiCalls = 0
    /\ sessions["s1"].messages = <<Message("user", <<"u1">>), Message("assistant", <<>>)>>

\* the methods that take m.mu and nothing else
MuMethods == {"Start", "Stop", "SetInterval"}
\* what a caller or a callback may call on the monitor
MonitorMethods == MuMethods \cup {"OnAlert", "GetCurrentContext"}

\* the first step of each method
EntryOf(op) ==
    IF op \in MuMethods \cup {"sendAlertIfNew", "checkPositionChanges"} THEN "want_mu"
    ELSE IF op = "OnAlert" THEN "want_cbw"
    ELSE "ctx"

\* what a goroutine does after the method it was in returns: the loop goes on
\* from sendAlertIfNew to checkPositionChanges, everything else is finished
AfterReturn(t, op) ==
    IF t = "loop" /\ op = "sendAlertIfNew"
    THEN [pc |-> EntryOf("checkPositionChanges"), op |-> "checkPositionChanges"]
    ELSE IdleTask

\* a caller, or a running callback, calls a method of the monitor
Call(t, op) ==
    /\ \/ t = "api" /\ mtasks[t].pc = "idle"
       \/ mtasks[t].pc = "cb"
    /\ mtasks' = [mtasks EXCEPT ![t] = [pc |-> EntryOf(op), op |-> op]]
    /\ UNCHANGED <<agentVars, lifeVars, loops, alertVars, now, world, ticks,
                   cbTasks, interval, config, mlocks, botVars>>

\* GetCurrentContext: BuildContext, no lock of the monitor
GetCurrentContext(t) ==
    /\ mtasks[t].pc = "ctx"
    /\ mtasks' = [mtasks EXCEPT ![t] = AfterReturn(t, mtasks[t].op)]
    /\ UNCHANGED <<agentVars, lifeVars, loops, alertVars, now, world, ticks,
                   cbTasks, interval, config, mlocks, botVars>>

\* checkAndAlert begins: BuildContext, then sendAlertIfNew for an alert of
\* the snapshot, or checkPositionChanges at once when it has none
TickBegins(op) ==
    /\ mtasks["loop"].pc = "idle"
    /\ mtasks' = [mtasks EXCEPT !["loop"] = [pc |-> EntryOf(op), op |-> op]]
    /\ UNCHANGED <<agentVars, lifeVars, loops, alertVars, now, world, ticks,
                   cbTasks, interval, config, mlocks, botVars>>

\* m.mu.Lock()
MuLock(t) ==
    /\ mtasks[t].pc = "want_mu"
    /\ mlocks.mu = "free"
    /\ mlocks' = [mlocks EXCEPT !.mu = t]
    /\ mtasks' = [mtasks EXCEPT ![t].pc = "has_mu"]
    /\ UNCHANGED <<agentVars, lifeVars, loops, alertVars, now, world, ticks,
                   cbTasks, interval, config, botVars>>

\* m.mu.Unlock() and return, after the method's work under the lock, which
\* for sendAlertIfNew and checkPositionChanges may have included sendAlert
MuUnlock(t) ==
    /\ mtasks[t].pc \in {"has_mu", "unlock"}
    /\ mlocks.mu = t
    /\ mlocks' = [mlocks EXCEPT !.mu = "free"]
    /\ mtasks' = [mtasks EXCEPT ![t] = AfterReturn(t, mtasks[t].op)]
    /\ UNCHANGED <<agentVars, lifeVars, loops, alertVars, now, world, ticks,
                   cbTasks, interval, config, botVars>>

\* sendAlertIfNew / checkPositionChanges, holding m.mu, call sendAlert
SendAlertCalled(t) ==
    /\ mtasks[t].pc = "has_mu"
    /\ mtasks[t].op \in {"sendAlertIfNew", "checkPositionChanges"}
    /\ mtasks' = [mtasks EXCEPT ![t].pc = "want_cbr"]
    /\ UNCHANGED <<agentVars, lifeVars, loops, alertVars, now, world, ticks,
                   cbTasks, interval, config, mlocks, botVars>>

\* a Lock() of callbackMu has been called and not yet granted
WriterPending == \E t \in MonTasks : mtasks[t].pc = "want_cbw"

\* sendAlert: m.callbackMu.RLock(); a reader waits behind a pending writer
CallbackRLock(t) ==
    /\ mtasks[t].pc = "want_cbr"
    /\ mlocks.callbackMu.w = "free"
    /\ ~WriterPending
    /\ mlocks' = [mlocks EXCEPT !.callbackMu.r = @ \cup {t}]
    /\ mtasks' = [mtasks EXCEPT ![t].pc = "has_cbr"]
    /\ UNCHANGED <<agentVars, lifeVars, loops, alertVars, now, world, ticks,
                   cbTasks, interval, config, botVars>>

\* sendAlert: the copy is made, m.callbackMu.RUnlock()
CallbackRUnlock(t) ==
    /\ mtasks[t].pc = "has_cbr"
    /\ mlocks' = [mlocks EXCEPT !.callbackMu.r = @ \ {t}]
    /\ mtasks' = [mtasks EXCEPT ![t].pc = "go"]
    /\ UNCHANGED <<agentVars, lifeVars, loops, alertVars, now, world, ticks,
                   cbTasks, interval, config, botVars>>

\* a callback called in the goroutine that sends the alert
RunsIn_Sender(t, g) == t
\* sendAlert: `go cb(alert)`, the callback runs in a goroutine of its own
RunsIn(t, g) == g

\* sendAlert: the callbacks of the copy are launched (here: on the goroutines
\* G that are free), and sendAlert returns to its caller, which unlocks m.mu
LaunchCallbacks(t, G) ==
    /\ mtasks[t].pc = "go"
    /\ \A g \in G : mtasks[g].pc = "idle"
    /\ mtasks' = [x \in MonTasks |->
                    IF \E g \in G : x = RunsIn(t, g) THEN [mtasks[x] EXCEPT !.pc = "cb"]
                    ELSE IF x = t THEN [mtasks[x] EXCEPT !.pc = "unlock"]
                    ELSE mtasks[x]]
    /\ UNCHANGED <<agentVars, lifeVars, loops, alertVars, now, world, ticks,
                   cbTasks, interval, config, mlocks, botVars>>

\* a callback returns without calling the monitor
CallbackEnds(t) ==
    /\ mtasks[t].pc = "cb"
    /\ mtasks' = [mtasks EXCEPT ![t] = IdleTask]
    /\ UNCHANGED <<agentVars, lifeVars, loops, alertVars, now, world, ticks,
                   cbTasks, interval, config, mlocks, botVars>>

\* m.callbackMu.Lock() of OnAlert
CallbackLock(t) ==
    /\ mtasks[t].pc = "want_cbw"
    /\ mlocks.callbackMu = [w |-> "free", r |-> {}]
    /\ mlocks' = [mlocks EXCEPT !.callbackMu.w = t]
    /\ mtasks' = [mtasks EXCEPT ![t].pc = "has_cbw"]
    /\ UNCHANGED <<agentVars, lifeVars, loops, alertVars, now, world, ticks,
                   cbTasks, interval, config, botVars>>

\* OnAlert: append, m.callbackMu.Unlock()
CallbackUnlock(t) ==
    /\ mtasks[t].pc = "has_cbw"
    /\ mlocks' = [mlocks EXCEPT !.callbackMu.w = "free"]
    /\ mtasks' = [mtasks EXCEPT ![t] = AfterReturn(t, mtasks[t].op)]
    /\ UNCHANGED <<agentVars, lifeVars, loops, alertVars, now, world, ticks,
                   cbTasks, interval, config, botVars>>

\* the lock steps of the monitor's methods, of its ticks and of callbacks
\* that call the monitor
NextSync ==
    \/ \E t \in MonTasks, op \in MonitorMethods : Call(t, op)
    \/ \E op \in {"sendAlertIfNew", "checkPositionChanges"} : TickBegins(op)
    \/ \E t \in MonTasks : GetCurrentContext(t)
    \/ \E t \in MonTasks : MuLock(t)
    \/ \E t \in MonTasks : MuUnlock(t)
    \/ \E t \in MonTasks : SendAlertCalled(t)
    \/ \E t \in MonTasks : CallbackRLock(t)
    \/ \E t \in MonTasks : CallbackRUnlock(t)
    \/ \E t \in MonTasks, G \in SUBSET CallbackTasks : LaunchCallbacks(t, G)
    \/ \E t \in MonTasks : CallbackEnds(t)
    \/ \E t \in MonTasks : CallbackLock(t)
    \/ \E t \in MonTasks : CallbackUnlock(t)

SpecSync == Init /\ [][NextSync]_vars

\* the locks goroutine t holds
HoldsMu(t) == mlocks.mu = t
HoldsCallbackMu(t) == mlocks.callbackMu.w = t \/ t \in mlocks.callbackMu.r

\* the goroutines that t waits for: the holder of the lock it wants, and for
\* a reader also the writer queued before it
WaitsFor(t) ==
    IF mtasks[t].pc = "want_mu" THEN {h \in MonTasks : HoldsMu(h)}
    ELSE IF mtasks[t].pc = "want_cbw" THEN {h \in MonTasks : HoldsCallbackMu(h)}
    ELSE IF mtasks[t].pc = "want_cbr"
         THEN {h \in MonTasks : mlocks.callbackMu.w = h \/ mtasks[h].pc = "want_cbw"}
    ELSE {}

\* a set of goroutines each of which waits for one of the set
Deadlocked(D) == D # {} /\ \A t \in D : WaitsFor(t) # {} /\ WaitsFor(t) \subseteq D

\* C37: no reachable state has a set of goroutines that wait for one another;
\* no goroutine asks for m.mu while it holds callbackMu; and a goroutine that
\* runs a callback holds neither lock when the callback starts.
C37_NoDeadlock ==
    /\ \A D \in SUBSET MonTasks : ~Deadlocked(D)
    /\ \A t \in MonTasks : HoldsCallbackMu(t) => mtasks[t].pc \in {"has_cbr", "has_cbw"}
    /\ \A t \in MonTasks : mtasks[t].pc = "cb" => ~HoldsMu(t) /\ ~HoldsCallbackMu(t)

\* the loop holds m.mu and waits to read callbackMu, behind an OnAlert that a
\* callback called, while another callback waits for m.mu in Stop
C37_Witness ==
    /\ mtasks["loop"].pc = "want_cbr"
    /\ HoldsMu("loop")
    /\ \E g \in CallbackTasks : mtasks[g] = [pc |-> "want_cbw", op |-> "OnAlert"]
    /\ \E g \in CallbackTasks : mtasks[g] = [pc |-> "want_mu", op |-> "Stop"]

\* the intervals SetInterval is called with, in seconds
Intervals == {DefaultInterval, 2 * DefaultInterval}

\* Monitor.SetInterval, under m.mu. monitorLoop reads m.interval without the
\* lock; the field is one machine word, so a read that races with this write
\* sees the value before it or the value after it, as the interleaving does
SetInterval(d) ==
    /\ interval # d
    /\ interval' = d
    /\ UNCHANGED <<agentVars, lifeVars, loops, alertVars, now, world, ticks,
                   cbTasks, config, syncVars, botVars>>

\* the monitor is started and stopped while its interval is changed
NextInterval ==
    \/ StartLocked
    \/ \E k \in LoopIds : StartGo(k)
    \/ Stop
    \/ \E d \in Intervals : SetInterval(d)
    \/ \E l \in LoopIds : LoopInitialCheck(l, <<"t1", "t2">>)
    \/ \E l \in LoopIds : LoopTick(l, <<"t1", "t2">>)
    \/ \E l \in LoopIds : LoopPositions(l)
    \/ \E l \in LoopIds : LoopReturn(l)

SpecInterval == Init /\ [][NextInterval]_vars

\* C38: a loop's ticker gets its period when the loop begins, the value of
\* m.interval at that moment, and keeps it for as long as the loop lives; a
\* SetInterval changes the period of no loop: only loops that begin after it
\* tick at the new interval.
C38_IntervalReadOnce ==
    [][\A l \in LoopIds :
          /\ (loops[l].pc = "none" /\ loops'[l].pc # "none") =>
                loops'[l].period = interval
          /\ loops[l].pc # "none" => loops'[l].period = loops[l].period
          /\ interval' # interval => loops' = loops]_vars

\* the first loop still ticks at the default interval after SetInterval
\* doubled it, and the loop of a later Start ticks at the doubled one
C38_Witness ==
    /\ interval = 2 * DefaultInterval
    /\ loops[1].pc = "select" /\ loops[1].period = DefaultInterval
    /\ loops[2].pc = "select" /\ loops[2].period = 2 * DefaultInterval
    /\ ticks >= 2

(* --------------------------- telegram bot ----------------------------- *)
\* time.Minute, in seconds
Minute == 60
\* messages let through the model of the bot
MaxMessages == 4
\* the readings of the bot's clock
BotInstants == {0, 1, Minute - 1, Minute, Minute + 1}

\* everything but the bot
nonBotVars ==
    <<agentVars, lifeVars, loops, alertVars, now, world, ticks, cbTasks, interval,
      config, syncVars>>

\* a filter that keeps the timestamp exactly one minute old
After_OrEqual(t, cutoff) == t >= cutoff
\* Allow: `t.After(cutoff)`
After(t, cutoff) == t > cutoff

\* Allow: the timestamps of the user that are not older than the cutoff
Recent(timestamps, cutoff) == SelectSeq(timestamps, LAMBDA t : After(t, cutoff))

\* RateLimiter.Allow(userID) at the present time: its result, and the map it
\* leaves; a map entry that is absent reads as the empty slice
Allow(userID) ==
    LET recent == Recent(users[userID], clock - Minute) IN
    IF Len(recent) >= botConfig.MaxMessagesPerMinute
    THEN [ok |-> FALSE, users |-> users]
    ELSE [ok |-> TRUE, users |-> [users EXCEPT ![userID] = Append(recent, clock)]]

\* a test of the allow-list as it is now
AllowlistEmpty_Current == allowedUsers = {}
\* accessControlMiddleware: `len(b.config.AllowedUserIDs) == 0`
AllowlistEmpty == Len(botConfig.AllowedUserIDs) = 0

\* accessControlMiddleware: `allowed := b.allowedUsers[userID]`
Authorized(userID) == userID \in allowedUsers

\* a message of user `userID` arrives: accessControlMiddleware, then
\* rateLimitMiddleware, then the handler
Incoming(userID) ==
    LET passed == AllowlistEmpty \/ Authorized(userID)
        a == Allow(userID)
    IN
    /\ Len(msgLog) < MaxMessages
    /\ users' = IF passed THEN a.users ELSE users
    /\ msgLog' = Append(msgLog, [user |-> userID, at |-> clock, allowed |-> allowedUsers,
                                passed |-> passed, admitted |-> passed /\ a.ok])
    /\ UNCHANGED <<nonBotVars, botConfig, allowedUsers, clock>>

\* Bot.AddAllowedUser
AddAllowedUser(userID) ==
    /\ userID \notin allowedUsers
    /\ allowedUsers' = allowedUsers \cup {userID}
    /\ UNCHANGED <<nonBotVars, botConfig, users, clock, msgLog>>

\* Bot.RemoveAllowedUser
RemoveAllowedUser(userID) ==
    /\ userID \in allowedUsers
    /\ allowedUsers' = allowedUsers \ {userID}
    /\ UNCHANGED <<nonBotVars, botConfig, users, clock, msgLog>>

\* the bot's clock moves on
ClockAdvance(t) ==
    /\ t > clock
    /\ clock' = t
    /\ UNCHANGED <<nonBotVars, botConfig, allowedUsers, users, msgLog>>

\* bots without an allow-list, with small limits
RateConfigs ==
    {[AllowedUserIDs |-> <<>>, MaxMessagesPerMinute |-> m] : m \in {0, 1, 2}}

\* users write to a bot that limits their rate
NextRate ==
    \/ \E u \in UserIDs : Incoming(u)
    \/ \E t \in BotInstants : ClockAdvance(t)

InitRate == InitAgent /\ InitMonitorWith({NoPositions}, RateConfigs)

SpecRate == InitRate /\ [][NextRate]_vars

\* the messages of user u among the first k that Allow admitted at a time in
\* (lo, hi]
AdmittedIn(u, lo, hi, k) ==
    {i \in 1..k : /\ msgLog[i].user = u
                  /\ msgLog[i].admitted
                  /\ msgLog[i].at > lo
                  /\ msgLog[i].at <= hi}

\* C39: per user, no window of one minute (open at its start) holds more
\* than maxPerMinute admitted messages; a call is admitted exactly when fewer
\* than maxPerMinute admitted messages of the same user lie within the last
\* minute; a rejected call leaves the limiter as it was, and a call changes
\* nothing of another user.
C39_RateLimit ==
    /\ [](\A i \in DOMAIN msgLog :
            LET e == msgLog[i] IN
            /\ botConfig.MaxMessagesPerMinute >= 0 =>
                  Cardinality(AdmittedIn(e.user, e.at - Minute, e.at, Len(msgLog)))
                     <= botConfig.MaxMessagesPerMinute
            /\ e.admitted <=>
                  Cardinality(AdmittedIn(e.user, e.at - Minute, e.at, i - 1))
                     < botConfig.MaxMessagesPerMinute)
    /\ [][Len(msgLog') > Len(msgLog) =>
            LET e == msgLog'[Len(msgLog')] IN
            /\ ~e.admitted => users' = users
            /\ \A v \in UserIDs \ {e.user} : users'[v] = users[v]]_vars

\* under a limit of one, user 1 was admitted at 0, rejected 59 seconds later
\* while user 2 was admitted, and admitted again at 60
C39_Witness ==
    /\ botConfig.MaxMessagesPerMinute = 1
    /\ Len(msgLog) = 4
    /\ [i \in 1..4 |-> <<msgLog[i].user, msgLog[i].at, msgLog[i].admitted>>] =
          << <<1, 0, TRUE>>, <<1, Minute - 1, FALSE>>, <<2, Minute - 1, TRUE>>,
             <<1, Minute, TRUE>> >>

\* bots with the default rate limit, without and with a configured allow-list
AccessConfigs ==
    {[AllowedUserIDs |-> l, MaxMessagesPerMinute |-> DefaultMessagesPerMinute] :
        l \in {<<>>, <<1>>}}

\* users write to the bot while its allow-list is changed
NextAccess ==
    \/ \E u \in UserIDs : Incoming(u)
    \/ \E u \in UserIDs : AddAllowedUser(u)
    \/ \E u \in UserIDs : RemoveAllowedUser(u)

InitAccess == InitAgent /\ InitMonitorWith({NoPositions}, AccessConfigs)

SpecAccess == InitAccess /\ [][NextAccess]_vars

\* C40: with a configured allow-list, a message passes access control exactly
\* when its sender is in the allowed set as it stands when the message
\* arrives, and only then can a handler run for it; with none configured
\* every message passes, whatever AddAllowedUser has put into the set.
C40_AccessControl ==
    \A i \in DOMAIN msgLog :
       LET e == msgLog[i] IN
       /\ e.admitted => e.passed
       /\ botConfig.AllowedUserIDs # <<>> => (e.passed <=> e.user \in e.allowed)
       /\ botConfig.AllowedUserIDs = <<>> => e.passed /\ e.admitted

\* the bot was configured to allow user 1; after user 1 was removed and user
\* 2 added, a message of user 1 was refused and one of user 2 handled
C40_Witness ==
    /\ botConfig.AllowedUserIDs = <<1>>
    /\ \E i, j \in DOMAIN msgLog :
          /\ msgLog[i].user = 1 /\ msgLog[i].allowed = {2} /\ ~msgLog[i].admitted
          /\ msgLog[j].user = 2 /\ msgLog[j].allowed = {2} /\ msgLog[j].admitted

\* no allow-list was configured, user 1 was added at run time, and a message
\* of user 2 was handled all the same
C40_OpenBotStaysOpen ==
    /\ botConfig.AllowedUserIDs = <<>>
    /\ \E i \in DOMAIN msgLog :
          msgLog[i].user = 2 /\ msgLog[i].allowed = {1} /\ msgLog[i].admitted
====
